---- MODULE Spec2Model ----
(***************************************************************************)
(* Model of theseus.core.objective.Objective (the Problem Graph): the      *)
(* bookkeeping of cost functions, variables and cost weights under add,    *)
(* erase, update, error, error_metric, copy and the query methods.         *)
(*                                                                         *)
(* Python objects are model values (strings); a dict keyed by name that    *)
(* the code keeps as an OrderedDict is a sequence of <<key, value>> pairs  *)
(* in insertion order; a dict keyed by object identity is a function whose *)
(* DOMAIN is the set of keys.  A method that raises part-way leaves the    *)
(* assignments it already made: every method is a chain of steps over a    *)
(* record [o |-> objective, exc |-> exception], and a step is skipped once *)
(* exc is set.                                                             *)
(***************************************************************************)
EXTENDS Integers, Sequences, FiniteSets, TLC

VARIABLES
  objective,    \* the fields of the Objective instance
  tensor,       \* Variable.tensor of every Variable object
  call,         \* the last method call and its arguments
  raised,       \* the exception the last call raised, or NoExc
  returned,     \* what the last call returned
  ordering,     \* the fields of the CostFunctionOrdering instance
  gbp           \* the GaussianBeliefPropagation optimizer and its current run

vars == <<objective, tensor, call, raised, returned, ordering, gbp>>

\* ---------------------------------------------------------------- bounds
\* add and erase are called while current_version is below MaxVersion
MaxVersion == 3

\* the same, where the variables' tensors are followed too
MaxUpdateVersion == 2

\* ------------------------------------------------- the application's objects
NoExc == "none"

\* a call that returns nothing returns None
None == [kind |-> "None", value |-> <<>>]

\* Variable objects; vx and vx2 are two objects with the same name, and so
\* are va and va2
Variables == {"vx", "vx2", "vy", "va", "va2"}

VarName(v) ==
  CASE v = "vx" -> "x" [] v = "vx2" -> "x" [] v = "vy" -> "y"
    [] v = "va" -> "a" [] v = "va2" -> "a"

ObjectiveDtype == "float32"

VarDtype(v) == "float32"

\* CostWeight objects: wa has an auxiliary variable, w0 has no variable,
\* wv declares an optimization variable
CostWeights == {"wa", "w0", "wv"}

\* CostFunction objects; f1 and f1b are two objects with the same name, and so
\* are f2 and f2b.
\*   f1  optimizes x, reads a, weight wa      f2  optimizes x and y, weight wa
\*   f4  uses a second object named x         f5  has the weight wv
\*   f6  reads x, which f1, f2 and f5 optimize, and a second object named a
CostFunctions == {"f1", "f2", "f1b", "f2b", "f4", "f5", "f6"}

FnName(f) ==
  CASE f = "f1b" -> "f1" [] f = "f2b" -> "f2" [] OTHER -> f

FnOptimVars(f) ==
  CASE f = "f1"  -> <<"vx">>
    [] f = "f2"  -> <<"vx", "vy">>
    [] f = "f1b" -> <<"vy">>
    [] f = "f2b" -> <<"vy">>
    [] f = "f4"  -> <<"vy", "vx2">>
    [] f = "f5"  -> <<"vx">>
    [] f = "f6"  -> <<"vy">>
    [] f = "wv"  -> <<"vy">>
    [] OTHER     -> <<>>

FnAuxVars(f) ==
  CASE f = "f1"  -> <<"va">>
    [] f = "f6"  -> <<"vx", "va2">>
    [] f = "wa"  -> <<"va">>
    [] OTHER     -> <<>>

FnWeight(f) ==
  CASE f = "f1"  -> "wa"
    [] f = "f2"  -> "wa"
    [] f = "f1b" -> "w0"
    [] f = "f2b" -> "w0"
    [] f = "f4"  -> "w0"
    [] f = "f5"  -> "wv"
    [] f = "f6"  -> "w0"

\* The objects as add() sees them.  A Variable is its identity, name and
\* dtype; a CostWeight and a CostFunction are their identity and the variables
\* they hold (and the name and the weight, for a CostFunction).
Variable(v) == [id |-> v, name |-> VarName(v), dtype |-> VarDtype(v)]

CostWeight(w) ==
  [ id         |-> w,
    optim_vars |-> [i \in 1..Len(FnOptimVars(w)) |-> Variable(FnOptimVars(w)[i])],
    aux_vars   |-> [i \in 1..Len(FnAuxVars(w)) |-> Variable(FnAuxVars(w)[i])] ]

CostFunction(f) ==
  [ id         |-> f,
    name       |-> FnName(f),
    optim_vars |-> [i \in 1..Len(FnOptimVars(f)) |-> Variable(FnOptimVars(f)[i])],
    aux_vars   |-> [i \in 1..Len(FnAuxVars(f)) |-> Variable(FnAuxVars(f)[i])],
    weight     |-> CostWeight(FnWeight(f)) ]

num_optim_vars(function) == Len(function.optim_vars)

Range(s) == {s[i] : i \in 1..Len(s)}

VarNames == {VarName(v) : v \in Variables}

CostFunctionNames == {FnName(f) : f \in CostFunctions}

\* --------------------------------------------------------- OrderedDict
DictKeys(d) == {d[i][1] : i \in 1..Len(d)}

DictHas(d, k) == k \in DictKeys(d)

DictGet(d, k) == d[CHOOSE i \in 1..Len(d) : d[i][1] = k][2]

Python_setitem(d, k, v) ==
  IF DictHas(d, k)
  THEN [i \in 1..Len(d) |-> IF d[i][1] = k THEN <<k, v>> ELSE d[i]]
  ELSE Append(d, <<k, v>>)

Python_delitem(d, k) == SelectSeq(d, LAMBDA p : p[1] # k)

\* dict keyed by object identity
MapSet(m, k, v) == [x \in DOMAIN m \cup {k} |-> IF x = k THEN v ELSE m[x]]

MapDel(m, k) == [x \in DOMAIN m \ {k} |-> m[x]]

\* list.index(x) and del list[i]
ListIndex(l, x) == CHOOSE i \in 1..Len(l) : l[i] = x /\ \A j \in 1..(i-1) : l[j] # x

ListDel(l, i) == [j \in 1..(Len(l)-1) |-> IF j < i THEN l[j] ELSE l[j+1]]

\* ------------------------------------------------------------ Objective
\* Objective._batch_size before the first update()
NoBatchSize == 0

Objective__init__(mixed) ==
  [ optim_vars                 |-> <<>>,
    cost_weight_optim_vars     |-> <<>>,
    aux_vars                   |-> <<>>,
    all_variables              |-> <<>>,
    cost_functions             |-> <<>>,
    cost_functions_for_weights |-> << >>,
    functions_for_optim_vars   |-> << >>,
    functions_for_aux_vars     |-> << >>,
    batch_size                 |-> NoBatchSize,
    current_version            |-> 0,
    allow_mixed_optim_aux_vars |-> mixed ]

Ok(o) == [o |-> o, exc |-> NoExc]

Raise(st, e) == [st EXCEPT !.exc = e]

\* one statement after another: e is what the statements so far have made of
\* the state, F the rest of the method
Bind(e, F(_)) == CHOOSE r \in {F(x) : x \in {e}} : TRUE

\* the body of the loop of Objective._add_function_variables for one variable
add_function_variable(st, function, variable, mapF, typeF) ==
  IF st.exc # NoExc THEN st
  ELSE IF variable.dtype # ObjectiveDtype THEN Raise(st, "ValueError")
  ELSE
    LET o    == st.o
        name == variable.name
        known == DictHas(o.all_variables, name)
    IN
    IF known /\ DictGet(o.all_variables, name) # variable.id
    THEN Raise(st, "ValueError")
    ELSE IF ~known /\ variable.id \in DOMAIN o[mapF]
    THEN Raise([st EXCEPT !.o.all_variables =
                              Python_setitem(o.all_variables, name, variable.id)],
               "AssertionError")
    ELSE
      LET o1 == IF known THEN o
                ELSE [o EXCEPT !.all_variables =
                                 Python_setitem(o.all_variables, name, variable.id),
                               ![mapF] = MapSet(o[mapF], variable.id, <<>>)]
          o2 == [o1 EXCEPT ![typeF] = Python_setitem(o1[typeF], name, variable.id)]
          o3 == IF o2.allow_mixed_optim_aux_vars /\ variable.id \notin DOMAIN o2[mapF]
                THEN [o2 EXCEPT ![mapF] = MapSet(o2[mapF], variable.id, <<>>)]
                ELSE o2
      IN
      IF variable.id \notin DOMAIN o3[mapF]
      THEN Raise([st EXCEPT !.o = o3], "KeyError")
      ELSE [st EXCEPT !.o = [o3 EXCEPT ![mapF] =
                               MapSet(o3[mapF], variable.id,
                                      Append(o3[mapF][variable.id], function.id))]]

RECURSIVE add_function_variables_loop(_, _, _, _, _, _)
add_function_variables_loop(st, function, function_vars, i, mapF, typeF) ==
  IF i > Len(function_vars) THEN st
  ELSE add_function_variables_loop(
         add_function_variable(st, function, function_vars[i], mapF, typeF),
         function, function_vars, i + 1, mapF, typeF)

add_function_variables(st, function, optim_vars, is_cost_weight) ==
  IF optim_vars
  THEN add_function_variables_loop(st, function, function.optim_vars, 1,
         "functions_for_optim_vars",
         IF is_cost_weight THEN "cost_weight_optim_vars" ELSE "optim_vars")
  ELSE add_function_variables_loop(st, function, function.aux_vars, 1,
         "functions_for_aux_vars", "aux_vars")

has_cost_function(o, name) == DictHas(o.cost_functions, name)

has_optim_var(o, name) == DictHas(o.optim_vars, name)

has_aux_var(o, name) == DictHas(o.aux_vars, name)

\* the weight part of Objective.add
add_weight(st, cost_function) ==
  IF st.exc # NoExc THEN st
  ELSE IF cost_function.weight.id \in DOMAIN st.o.cost_functions_for_weights THEN st
  ELSE
    Bind(add_function_variables(st, cost_function.weight, TRUE, TRUE), LAMBDA s1 :
    Bind(add_function_variables(s1, cost_function.weight, FALSE, TRUE), LAMBDA s2 :
      IF s2.exc # NoExc THEN s2
      ELSE
        Bind([s2 EXCEPT !.o.cost_functions_for_weights =
                MapSet(s2.o.cost_functions_for_weights, cost_function.weight.id, <<>>)],
             LAMBDA s3 :
               IF num_optim_vars(cost_function.weight) > 0
               THEN Raise(s3, "RuntimeError")
               ELSE s3)))

\* the check of Objective.add that no variable is both optimization and auxiliary
add_dual_check(st, cost_function) ==
  IF st.exc # NoExc \/ st.o.allow_mixed_optim_aux_vars THEN st
  ELSE
    LET w == cost_function.weight
        optim_vars_names == {v.name : v \in Range(cost_function.optim_vars)
                                           \cup Range(w.optim_vars)}
        aux_vars_names == {v.name : v \in Range(cost_function.aux_vars)
                                         \cup Range(w.aux_vars)}
    IN
    IF (\E n \in optim_vars_names : has_aux_var(st.o, n))
       \/ (\E n \in aux_vars_names : has_optim_var(st.o, n))
    THEN Raise(st, "ValueError")
    ELSE st

\* the last statement of the weight part of Objective.add
add_weight_append(st, cost_function) ==
  IF st.exc # NoExc THEN st
  ELSE [st EXCEPT !.o.cost_functions_for_weights =
          MapSet(st.o.cost_functions_for_weights, cost_function.weight.id,
                 Append(st.o.cost_functions_for_weights[cost_function.weight.id],
                        cost_function.id))]

\* a name check that counts the call before it looks at the name
add_name_check_counts_first(o, cost_function) ==
  IF DictHas(o.cost_functions, cost_function.name)
  THEN IF DictGet(o.cost_functions, cost_function.name) # cost_function.id
       THEN Raise(Ok([o EXCEPT !.current_version = o.current_version + 1]), "ValueError")
       ELSE Ok([o EXCEPT !.current_version = o.current_version + 1])
  ELSE Ok([o EXCEPT !.cost_functions =
                      Python_setitem(o.cost_functions, cost_function.name,
                                     cost_function.id),
                    !.current_version = o.current_version + 1])

\* the cost-function name check of Objective.add and the version counter
add_name_check(o, cost_function) ==
  IF DictHas(o.cost_functions, cost_function.name)
  THEN IF DictGet(o.cost_functions, cost_function.name) # cost_function.id
       THEN Raise(Ok(o), "ValueError")
       ELSE Ok([o EXCEPT !.current_version = o.current_version + 1])
  ELSE Ok([o EXCEPT !.cost_functions =
                      Python_setitem(o.cost_functions, cost_function.name,
                                     cost_function.id),
                    !.current_version = o.current_version + 1])

add(o, cost_function) ==
  Bind(add_name_check(o, cost_function), LAMBDA s0 :
  Bind(add_function_variables(s0, cost_function, TRUE, FALSE), LAMBDA s1 :
  Bind(add_function_variables(s1, cost_function, FALSE, FALSE), LAMBDA s2 :
  Bind(add_weight(s2, cost_function), LAMBDA s3 :
  Bind(add_weight_append(s3, cost_function), LAMBDA s4 :
    add_dual_check(s4, cost_function))))))

\* the body of the loop of Objective._erase_function_variables for one variable
erase_function_variable(st, function, variable, mapF, typeF) ==
  IF st.exc # NoExc THEN st
  ELSE
    LET o == st.o IN
    IF variable.id \notin DOMAIN o[mapF] THEN Raise(st, "KeyError")
    ELSE IF function.id \notin Range(o[mapF][variable.id]) THEN Raise(st, "ValueError")
    ELSE
      LET cost_fn_idx == ListIndex(o[mapF][variable.id], function.id)
          rest == ListDel(o[mapF][variable.id], cost_fn_idx)
          o1   == [o EXCEPT ![mapF] = MapSet(o[mapF], variable.id, rest)]
      IN
      IF rest # <<>> THEN [st EXCEPT !.o = o1]
      ELSE
        LET o2 == [o1 EXCEPT ![mapF] = MapDel(o1[mapF], variable.id)] IN
        IF ~DictHas(o2[typeF], variable.name)
        THEN Raise([st EXCEPT !.o = o2], "KeyError")
        ELSE [st EXCEPT !.o = [o2 EXCEPT ![typeF] =
                                 Python_delitem(o2[typeF], variable.name)]]

RECURSIVE erase_function_variables_loop(_, _, _, _, _, _)
erase_function_variables_loop(st, function, fn_var_list, i, mapF, typeF) ==
  IF i > Len(fn_var_list) THEN st
  ELSE erase_function_variables_loop(
         erase_function_variable(st, function, fn_var_list[i], mapF, typeF),
         function, fn_var_list, i + 1, mapF, typeF)

erase_function_variables(st, function, optim_vars, is_cost_weight) ==
  IF optim_vars
  THEN erase_function_variables_loop(st, function, function.optim_vars, 1,
         "functions_for_optim_vars",
         IF is_cost_weight THEN "cost_weight_optim_vars" ELSE "optim_vars")
  ELSE erase_function_variables_loop(st, function, function.aux_vars, 1,
         "functions_for_aux_vars", "aux_vars")

\* the weight part of Objective.erase
erase_weight(st, cost_function) ==
  IF st.exc # NoExc THEN st
  ELSE
    LET cost_weight == cost_function.weight
        cfw == st.o.cost_functions_for_weights
    IN
    IF cost_weight.id \notin DOMAIN cfw THEN Raise(st, "KeyError")
    ELSE IF cost_function.id \notin Range(cfw[cost_weight.id]) THEN Raise(st, "ValueError")
    ELSE
      Bind(ListDel(cfw[cost_weight.id],
                   ListIndex(cfw[cost_weight.id], cost_function.id)), LAMBDA rest :
      Bind([st EXCEPT !.o.cost_functions_for_weights =
                        MapSet(cfw, cost_weight.id, rest)], LAMBDA s1 :
        IF Len(rest) # 0 THEN s1
        ELSE
          Bind(erase_function_variables(s1, cost_weight, TRUE, TRUE), LAMBDA s2 :
          Bind(erase_function_variables(s2, cost_weight, FALSE, TRUE), LAMBDA s3 :
            IF s3.exc # NoExc THEN s3
            ELSE [s3 EXCEPT !.o.cost_functions_for_weights =
                              MapDel(s3.o.cost_functions_for_weights, cost_weight.id)]))))

\* the statements of Objective.erase for a name that is registered
erase_registered(o, name) ==
  Bind(CostFunction(DictGet(o.cost_functions, name)), LAMBDA cost_function :
  Bind(erase_function_variables(Ok(o), cost_function, TRUE, FALSE), LAMBDA s1 :
  Bind(erase_function_variables(s1, cost_function, FALSE, FALSE), LAMBDA s2 :
  Bind(erase_weight(s2, cost_function), LAMBDA s3 :
    IF s3.exc # NoExc THEN s3
    ELSE [s3 EXCEPT !.o.cost_functions = Python_delitem(s3.o.cost_functions, name)]))))

\* erase with the version counter incremented after the early return
erase_version_after_return(o, name) ==
  IF ~DictHas(o.cost_functions, name) THEN Ok(o)
  ELSE erase_registered([o EXCEPT !.current_version = o.current_version + 1], name)

\* erase that fails for a name that is not registered
erase_raises_if_absent(o, name) ==
  Bind([o EXCEPT !.current_version = o.current_version + 1], LAMBDA o1 :
    IF ~DictHas(o1.cost_functions, name) THEN Raise(Ok(o1), "KeyError")
    ELSE erase_registered(o1, name))

erase(o, name) ==
  Bind([o EXCEPT !.current_version = o.current_version + 1], LAMBDA o1 :
    IF ~DictHas(o1.cost_functions, name) THEN Ok(o1)
    ELSE erase_registered(o1, name))

\* ------------------------------------------------------- tensors and update
\* a torch.Tensor: number of dimensions, leading (batch) dimension, content
InitialTensor == [ndim |-> 2, bs |-> 1, val |-> 0]

\* Variable.update(tensor): the variable holds the given tensor afterwards
Variable_update(tn, variable, new_tensor) == [tn EXCEPT ![variable] = new_tensor]

\* get_batch_size with the smaller of two batch sizes returned
get_batch_size_min(batch_sizes) ==
  LET unique_batch_sizes == Range(batch_sizes) IN
  IF Cardinality(unique_batch_sizes) = 1 THEN batch_sizes[1]
  ELSE IF Cardinality(unique_batch_sizes) = 2
          /\ (CHOOSE m \in unique_batch_sizes : \A n \in unique_batch_sizes : m <= n) = 1
       THEN CHOOSE m \in unique_batch_sizes : \A n \in unique_batch_sizes : m <= n
       ELSE 0

\* the nested _get_batch_size of Objective._resolve_batch_size; 0 stands for
\* the ValueError
get_batch_size(batch_sizes) ==
  LET unique_batch_sizes == Range(batch_sizes) IN
  IF Cardinality(unique_batch_sizes) = 1 THEN batch_sizes[1]
  ELSE IF Cardinality(unique_batch_sizes) = 2
          /\ (CHOOSE m \in unique_batch_sizes : \A n \in unique_batch_sizes : m <= n) = 1
       THEN CHOOSE m \in unique_batch_sizes : \A n \in unique_batch_sizes : m >= n
       ELSE 0

\* st carries the tensors next to the objective: [o, tn, exc]
resolve_batch_size(st) ==
  IF st.exc # NoExc THEN st
  ELSE
    Bind(get_batch_size(
           [i \in 1..Len(st.o.optim_vars) |-> st.tn[st.o.optim_vars[i][2]].bs]
           \o [i \in 1..Len(st.o.aux_vars) |-> st.tn[st.o.aux_vars[i][2]].bs]),
         LAMBDA bsz :
           IF bsz = 0
           THEN Raise([st EXCEPT !.o.batch_size = NoBatchSize], "ValueError")
           ELSE [st EXCEPT !.o.batch_size = bsz])

\* an update that fails for a name that is bound to no variable
update_entry_unknown_raises(st, var_name, new_tensor) ==
  IF st.exc # NoExc THEN st
  ELSE IF new_tensor.ndim < 2 THEN Raise(st, "ValueError")
  ELSE
    LET o == st.o IN
    IF DictHas(o.optim_vars, var_name)
    THEN [st EXCEPT !.tn = Variable_update(st.tn, DictGet(o.optim_vars, var_name), new_tensor)]
    ELSE IF DictHas(o.aux_vars, var_name)
    THEN [st EXCEPT !.tn = Variable_update(st.tn, DictGet(o.aux_vars, var_name), new_tensor)]
    ELSE IF DictHas(o.cost_weight_optim_vars, var_name)
    THEN [st EXCEPT !.tn = Variable_update(st.tn, DictGet(o.cost_weight_optim_vars, var_name),
                                           new_tensor)]
    ELSE Raise(st, "KeyError")

\* the body of the loop of Objective.update for one entry of input_tensors
update_entry(st, var_name, new_tensor) ==
  IF st.exc # NoExc THEN st
  ELSE IF new_tensor.ndim < 2 THEN Raise(st, "ValueError")
  ELSE
    LET o == st.o IN
    IF DictHas(o.optim_vars, var_name)
    THEN [st EXCEPT !.tn = Variable_update(st.tn, DictGet(o.optim_vars, var_name), new_tensor)]
    ELSE IF DictHas(o.aux_vars, var_name)
    THEN [st EXCEPT !.tn = Variable_update(st.tn, DictGet(o.aux_vars, var_name), new_tensor)]
    ELSE IF DictHas(o.cost_weight_optim_vars, var_name)
    THEN [st EXCEPT !.tn = Variable_update(st.tn, DictGet(o.cost_weight_optim_vars, var_name),
                                           new_tensor)]
    ELSE st

RECURSIVE update_loop(_, _, _)
update_loop(st, input_tensors, i) ==
  IF i > Len(input_tensors) THEN st
  ELSE update_loop(update_entry(st, input_tensors[i][1], input_tensors[i][2]),
                   input_tensors, i + 1)

\* Objective.update; input_tensors is the dict as a sequence of <<name, tensor>>
\* (a call with None is the call with the empty dict); the objective is never
\* vectorized, so update_vectorization_if_needed does nothing
update(st, input_tensors) ==
  Bind(update_loop(st, input_tensors, 1), LAMBDA s1 : resolve_batch_size(s1))

\* cost_function.dim(): the dimension of the error of a cost function
FnDim(f) == CASE f = "f2" -> 2 [] OTHER -> 1

\* Objective.dim
RECURSIVE dim_from(_, _)
dim_from(o, i) ==
  IF i > Len(o.cost_functions) THEN 0
  ELSE FnDim(o.cost_functions[i][2]) + dim_from(o, i + 1)

dim(o) == dim_from(o, 1)

\* the value Objective.error returns, torch.cat of the weighted errors of the
\* cost functions of _get_error_iter_base along dim 1: the columns of the
\* error vector, <<cf, k>> for column k of the error of cf
RECURSIVE error_vector_from(_, _)
error_vector_from(o, i) ==
  IF i > Len(o.cost_functions) THEN <<>>
  ELSE [k \in 1..FnDim(o.cost_functions[i][2]) |-> <<o.cost_functions[i][2], k>>]
       \o error_vector_from(o, i + 1)

error_vector(o) == error_vector_from(o, 1)

\* Objective.error; inp = [given |-> FALSE] is input_tensors = None
error(st, inp, also_update) ==
  Bind(IF inp.given /\ ~also_update
       THEN [i \in 1..Len(st.o.optim_vars) |->
               <<st.o.optim_vars[i][1], st.tn[st.o.optim_vars[i][2]]>>]
       ELSE <<>>, LAMBDA old_tensors :
  Bind(IF inp.given THEN update(st, inp.items) ELSE st, LAMBDA s1 :
  \* torch.cat of the weighted errors of the cost functions
  Bind(IF s1.exc # NoExc THEN s1
       ELSE IF Len(s1.o.cost_functions) = 0 THEN Raise(s1, "RuntimeError")
       ELSE s1, LAMBDA s2 :
    IF s2.exc = NoExc /\ inp.given /\ ~also_update
    THEN update(s2, old_tensors)
    ELSE s2)))

\* Objective.error_metric: the error metric function applied to error()
error_metric(st, inp, also_update) == error(st, inp, also_update)

\* -------------------------------------------------------------------- copy
\* Variable.copy(): a new Variable object with the name, the dtype and the
\* tensor of the given one; held_by is the function whose copy creates it
Variable_copy(variable, holder) ==
  [variable EXCEPT !.id = [copy_of |-> variable.id, held_by |-> holder]]

\* CostWeight.copy(new_name=name, keep_variable_names=True): a new CostWeight
\* object with a copy of every variable
CostWeight_copy(cost_weight) ==
  [ id         |-> [copy_of |-> cost_weight.id, held_by |-> cost_weight.id],
    optim_vars |-> [i \in 1..Len(cost_weight.optim_vars) |->
                     Variable_copy(cost_weight.optim_vars[i], cost_weight.id)],
    aux_vars   |-> [i \in 1..Len(cost_weight.aux_vars) |->
                     Variable_copy(cost_weight.aux_vars[i], cost_weight.id)] ]

\* CostFunction.copy(new_name=name, keep_variable_names=True): a new
\* CostFunction object with the same name and a copy of every variable.  Its
\* weight is a reference to a CostWeight that other copies share and that the
\* loop of Objective.copy changes, so it is kept as the key of the weight in
\* old_to_new_cost_weight_map.
CostFunction_copy(cost_function) ==
  [ id         |-> [copy_of |-> cost_function.id, held_by |-> cost_function.id],
    name       |-> cost_function.name,
    optim_vars |-> [i \in 1..Len(cost_function.optim_vars) |->
                     Variable_copy(cost_function.optim_vars[i], cost_function.id)],
    aux_vars   |-> [i \in 1..Len(cost_function.aux_vars) |->
                     Variable_copy(cost_function.aux_vars[i], cost_function.id)],
    weight     |-> cost_function.weight.id ]

\* set_optim_var_at / set_aux_var_at for every variable whose name the new
\* objective already has in var_dict
copy_resolve(function_vars, var_dict) ==
  [i \in 1..Len(function_vars) |->
     IF DictHas(var_dict, function_vars[i].name)
     THEN [ id    |-> DictGet(var_dict, function_vars[i].name),
            name  |-> function_vars[i].name,
            dtype |-> ObjectiveDtype ]
     ELSE function_vars[i]]

\* the body of the last loop of Objective.copy for one new cost function; st is
\* [o |-> new_objective, exc, weights |-> the new CostWeight objects]
copy_add(st, cost_function) ==
  IF st.exc # NoExc THEN st
  ELSE
    Bind([ id         |-> st.weights[cost_function.weight].id,
           optim_vars |-> copy_resolve(st.weights[cost_function.weight].optim_vars,
                                       st.o.cost_weight_optim_vars),
           aux_vars   |-> copy_resolve(st.weights[cost_function.weight].aux_vars,
                                       st.o.aux_vars) ], LAMBDA new_weight :
    Bind([ id         |-> cost_function.id,
           name       |-> cost_function.name,
           optim_vars |-> copy_resolve(cost_function.optim_vars, st.o.optim_vars),
           aux_vars   |-> copy_resolve(cost_function.aux_vars, st.o.aux_vars),
           weight     |-> new_weight ], LAMBDA new_cost_function :
    Bind(add(st.o, new_cost_function), LAMBDA r :
      [ o       |-> r.o,
        exc     |-> r.exc,
        weights |-> [st.weights EXCEPT ![cost_function.weight] = new_weight] ])))

RECURSIVE copy_loop(_, _, _)
copy_loop(st, new_cost_functions, i) ==
  IF i > Len(new_cost_functions) THEN st
  ELSE copy_loop(copy_add(st, new_cost_functions[i]), new_cost_functions, i + 1)

\* Objective.copy: [o |-> new_objective, exc]
copy(o) ==
  Bind([i \in 1..Len(o.cost_functions) |->
          CostFunction_copy(CostFunction(o.cost_functions[i][2]))],
       LAMBDA new_cost_functions :
  Bind([ o       |-> Objective__init__(FALSE),
         exc     |-> NoExc,
         weights |-> [w \in DOMAIN o.cost_functions_for_weights |->
                        CostWeight_copy(CostWeight(w))] ], LAMBDA st :
    IF \E i \in 1..Len(new_cost_functions) :
         new_cost_functions[i].weight \notin DOMAIN st.weights
    THEN Raise(Ok(st.o), "KeyError")
    ELSE Bind(copy_loop(st, new_cost_functions, 1),
              LAMBDA r : [o |-> r.o, exc |-> r.exc])))

\* ----------------------------------------------------------------- queries
\* Objective._get_functions_connected_to_var for a variable given by name
get_functions_connected_to_var(o, variable, containerF, mapF) ==
  IF ~DictHas(o[containerF], variable)
  THEN [exc |-> "ValueError", value |-> <<>>]
  ELSE IF DictGet(o[containerF], variable) \notin DOMAIN o[mapF]
  THEN [exc |-> "ValueError", value |-> <<>>]
  ELSE [exc |-> NoExc, value |-> o[mapF][DictGet(o[containerF], variable)]]

get_functions_connected_to_optim_var(o, variable) ==
  get_functions_connected_to_var(o, variable, "optim_vars", "functions_for_optim_vars")

get_functions_connected_to_aux_var(o, aux_var) ==
  get_functions_connected_to_var(o, aux_var, "aux_vars", "functions_for_aux_vars")

size(o) == <<Len(o.cost_functions), Len(o.optim_vars)>>

\* the query q applied to o: [exc, value], value a tuple
query(o, q) ==
  CASE q.op = "has_cost_function" ->
         [exc |-> NoExc, value |-> <<has_cost_function(o, q.name)>>]
    [] q.op = "has_optim_var" ->
         [exc |-> NoExc, value |-> <<has_optim_var(o, q.name)>>]
    [] q.op = "has_aux_var" ->
         [exc |-> NoExc, value |-> <<has_aux_var(o, q.name)>>]
    [] q.op = "get_functions_connected_to_optim_var" ->
         get_functions_connected_to_optim_var(o, q.name)
    [] q.op = "get_functions_connected_to_aux_var" ->
         get_functions_connected_to_aux_var(o, q.name)
    [] q.op = "size" ->
         [exc |-> NoExc, value |-> size(o)]

\* ----------------------------------------------------------------- actions
\* no CostFunctionOrdering and no optimizer has been constructed
NoOrdering == [constructed |-> FALSE, cf_order |-> <<>>, cf_name_to_index |-> << >>]

NoOptimizer == [constructed |-> FALSE, pc |-> "none"]

Init ==
  /\ \E mixed \in BOOLEAN : objective = Objective__init__(mixed)
  /\ tensor = [v \in Variables |-> InitialTensor]
  /\ call = [op |-> "init"]
  /\ raised = NoExc
  /\ returned = None
  /\ ordering = NoOrdering
  /\ gbp = NoOptimizer

Add ==
  \E cf \in CostFunctions :
    /\ objective.current_version < MaxVersion
    /\ \E r \in {Bind(CostFunction(cf), LAMBDA cost_function :
                        add(objective, cost_function))} :
         /\ objective' = r.o
         /\ raised' = r.exc
    /\ call' = [op |-> "add", cost_function |-> cf]
    /\ returned' = None
    /\ UNCHANGED <<tensor, ordering, gbp>>

\* names of cost functions of the application, and one that is never registered
EraseNames == CostFunctionNames \cup {"none"}

Erase ==
  \E name \in EraseNames :
    /\ objective.current_version < MaxVersion
    /\ \E r \in {erase(objective, name)} :
         /\ objective' = r.o
         /\ raised' = r.exc
    /\ call' = [op |-> "erase", name |-> name]
    /\ returned' = None
    /\ UNCHANGED <<tensor, ordering, gbp>>

\* names given to update(): an optimization variable (of f2; the optimization
\* variable of the weight of f5), an auxiliary variable, and a name bound to
\* no variable
InputNames == {"y", "a", "u"}

\* tensors given to update(): fresh tensors, one of them without batch dimension
BatchDims == {1, 3, 5}

InputTensors ==
  {[ndim |-> 2, bs |-> b, val |-> 1] : b \in BatchDims}
  \cup {[ndim |-> 1, bs |-> 1, val |-> 1]}

\* input_tensors: None, the empty dict, or a dict with one entry
Inputs ==
  {[given |-> FALSE, items |-> <<>>], [given |-> TRUE, items |-> <<>>]} \cup
  {[given |-> TRUE, items |-> << <<k, t>> >>] : k \in InputNames, t \in InputTensors}

\* copy() leaves the objective alone and returns the new one
Copy ==
  /\ call' = [op |-> "copy"]
  /\ \E r \in {copy(objective)} :
       /\ raised' = r.exc
       /\ returned' = IF r.exc = NoExc
                       THEN [kind |-> "Objective", value |-> r.o]
                       ELSE None
  /\ UNCHANGED <<objective, tensor, ordering, gbp>>

\* the calls of the graph bookkeeping
Next == Add \/ Erase \/ Copy

Spec == Init /\ [][Next]_vars

\* ------------------------------------------ actions with the variables' tensors
\* cost functions added where the tensors are followed too
UpdateCostFunctions == {"f2", "f2b", "f5"}

AddU ==
  \E cf \in UpdateCostFunctions :
    /\ objective.current_version < MaxUpdateVersion
    /\ \E r \in {Bind(CostFunction(cf), LAMBDA cost_function :
                        add(objective, cost_function))} :
         /\ objective' = r.o
         /\ raised' = r.exc
    /\ call' = [op |-> "add", cost_function |-> cf]
    /\ returned' = None
    /\ UNCHANGED <<tensor, ordering, gbp>>

EraseU ==
  \E name \in {FnName(f) : f \in UpdateCostFunctions} :
    /\ objective.current_version < MaxUpdateVersion
    /\ \E r \in {erase(objective, name)} :
         /\ objective' = r.o
         /\ raised' = r.exc
    /\ call' = [op |-> "erase", name |-> name]
    /\ returned' = None
    /\ UNCHANGED <<tensor, ordering, gbp>>

UpdateCall(inp) ==
  /\ inp.given
  /\ call' = [op |-> "update", input_tensors |-> inp.items]
  /\ \E r \in {update([o |-> objective, tn |-> tensor, exc |-> NoExc], inp.items)} :
       /\ objective' = r.o
       /\ tensor' = r.tn
       /\ raised' = r.exc
  /\ returned' = None
  /\ UNCHANGED <<ordering, gbp>>

Update == \E inp \in Inputs : UpdateCall(inp)

ErrorCall(inp, also_update) ==
  /\ call' = [op |-> "error"]
  /\ \E r \in {error([o |-> objective, tn |-> tensor, exc |-> NoExc],
                       inp, also_update)} :
       /\ objective' = r.o
       /\ tensor' = r.tn
       /\ raised' = r.exc
       /\ returned' = IF r.exc = NoExc
                       THEN [kind |-> "error_vector", value |-> error_vector(r.o)]
                       ELSE None
  /\ UNCHANGED <<ordering, gbp>>

Error == \E inp \in Inputs, also_update \in BOOLEAN : ErrorCall(inp, also_update)

ErrorMetricCall(inp, also_update) ==
  /\ call' = [op |-> "error_metric"]
  /\ \E r \in {error_metric([o |-> objective, tn |-> tensor, exc |-> NoExc],
                              inp, also_update)} :
       /\ objective' = r.o
       /\ tensor' = r.tn
       /\ raised' = r.exc
       /\ returned' = IF r.exc = NoExc
                       THEN [kind |-> "error_metric_fn", value |-> error_vector(r.o)]
                       ELSE None
  /\ UNCHANGED <<ordering, gbp>>

ErrorMetric ==
  \E inp \in Inputs, also_update \in BOOLEAN : ErrorMetricCall(inp, also_update)

NextUpdate == AddU \/ EraseU \/ Update \/ Error \/ ErrorMetric

SpecUpdate == Init /\ [][NextUpdate]_vars

\* ------------------------------------------------------- all the operations
\* the query operations, each with the names it is asked about
Queries ==
  {[op |-> "has_cost_function", name |-> n] :
     n \in {FnName(f) : f \in UpdateCostFunctions}}
  \cup {[op |-> q, name |-> "x"] :
          q \in {"has_optim_var", "get_functions_connected_to_optim_var"}}
  \cup {[op |-> q, name |-> "a"] :
          q \in {"has_aux_var", "get_functions_connected_to_aux_var"}}
  \cup {[op |-> "size", name |-> ""]}

Query ==
  \E q \in Queries :
    /\ call' = q
    /\ \E r \in {query(objective, q)} :
         /\ raised' = r.exc
         /\ returned' = IF r.exc = NoExc
                         THEN [kind |-> "query", value |-> r.value]
                         ELSE None
    /\ UNCHANGED <<objective, tensor, ordering, gbp>>

NextAll == AddU \/ EraseU \/ Update \/ Error \/ ErrorMetric \/ Copy \/ Query

SpecAll == Init /\ [][NextAll]_vars
\* ------------------------------------------------- vocabulary of the claims
\* the cost function objects registered in o
RegisteredFunctions(o) == {o.cost_functions[i][2] : i \in 1..Len(o.cost_functions)}

IsRegistered(o, cf) ==
  has_cost_function(o, FnName(cf)) /\ DictGet(o.cost_functions, FnName(cf)) = cf

\* the bookkeeping of the graph, without the version counter and the batch size
GraphOf(o) ==
  [o EXCEPT !.current_version = 0, !.batch_size = NoBatchSize]

\* the variables a cost function or a cost weight refers to
VarsOf(f) == Range(FnOptimVars(f)) \cup Range(FnAuxVars(f))

\* the objects the graph binds to the name n
BoundObjects(o, n) ==
  {v \in Variables :
     /\ VarName(v) = n
     /\ \/ \E i \in 1..Len(o.optim_vars) : o.optim_vars[i] = <<n, v>>
        \/ \E i \in 1..Len(o.aux_vars) : o.aux_vars[i] = <<n, v>>
        \/ \E i \in 1..Len(o.cost_weight_optim_vars) : o.cost_weight_optim_vars[i] = <<n, v>>
        \/ v \in DOMAIN o.functions_for_optim_vars
        \/ v \in DOMAIN o.functions_for_aux_vars}

\* cf, or its weight, carries a variable whose name the graph binds to another object
CarriesConflict(o, cf) ==
  \E v \in VarsOf(cf) \cup VarsOf(FnWeight(cf)) :
    \E u \in BoundObjects(o, VarName(v)) : u # v

IsAdd(c) == c.op = "add"

IsErase(c) == c.op = "erase"

\* ------------------------------------------------------------------ claims
\* C1: add(cf) of a cost function object that is already registered raises no
\* error and leaves the graph unchanged: no map or list gains an entry for cf.
C1_ReAddIsIdempotent ==
  [][(IsAdd(call') /\ IsRegistered(objective, call'.cost_function))
       => (raised' = NoExc /\ GraphOf(objective') = GraphOf(objective))]_vars

\* C2: after every add and erase call every registered variable name is bound
\* to exactly one Variable object, and an add of a cost function that carries a
\* variable whose name is bound to another object raises ValueError.
C2_UniqueNameBinding ==
  [][/\ \A n \in VarNames : Cardinality(BoundObjects(objective', n)) <= 1
     /\ (IsAdd(call') /\ CarriesConflict(objective, call'.cost_function))
          => raised' = "ValueError"]_vars

\* C3: erase(name) of a registered cost function removes every variable that
\* only this cost function referred to, and keeps every registered variable
\* that another registered cost function or its weight refers to.
C3_EraseCascade ==
  [][(IsErase(call') /\ has_cost_function(objective, call'.name)) =>
       LET cf     == DictGet(objective.cost_functions, call'.name)
           others == RegisteredFunctions(objective) \ {cf}
           weights == {FnWeight(g) : g \in RegisteredFunctions(objective)}
           elsewhere(v) == \E g \in others : v \in VarsOf(g) \cup VarsOf(FnWeight(g))
       IN
       /\ \A v \in VarsOf(cf) :
            (~elsewhere(v) /\ \A w \in weights : v \notin VarsOf(w))
              => (~has_optim_var(objective', VarName(v))
                  /\ ~has_aux_var(objective', VarName(v)))
       /\ \A v \in Variables :
            (elsewhere(v) /\ has_optim_var(objective, VarName(v)))
              => has_optim_var(objective', VarName(v))
       /\ \A v \in Variables :
            (elsewhere(v) /\ has_aux_var(objective, VarName(v)))
              => has_aux_var(objective', VarName(v))]_vars

\* C4: with the relaxed mode off no name is registered both as an optimization
\* variable and as an auxiliary variable, in any state add and erase reach.
C4_NoDualRegistration ==
  ~objective.allow_mixed_optim_aux_vars =>
    \A n \in VarNames : ~(has_optim_var(objective, n) /\ has_aux_var(objective, n))

\* C5: add(cf) raises whenever the weight of cf declares an optimization
\* variable, also when cf or the weight was given to an earlier rejected add.
C5_WeightWithOptimVarsRejected ==
  [][(IsAdd(call') /\ num_optim_vars(CostWeight(FnWeight(call'.cost_function))) > 0)
       => raised' # NoExc]_vars

\* C6: has_optim_var(n) holds exactly when a registered cost function has an
\* optimization variable named n, and has_aux_var(n) exactly when a registered
\* cost function or its weight has an auxiliary variable named n.
C6_RegisteredIffReferenced ==
  \A n \in VarNames :
    /\ has_optim_var(objective, n) <=>
         \E cf \in RegisteredFunctions(objective) :
           \E v \in Range(FnOptimVars(cf)) : VarName(v) = n
    /\ has_aux_var(objective, n) <=>
         \E cf \in RegisteredFunctions(objective) :
           \E v \in Range(FnAuxVars(cf)) \cup Range(FnAuxVars(FnWeight(cf))) :
             VarName(v) = n

\* C7: erase of the last registered cost function that uses a weight removes
\* the weight's entry and the weight's variables nothing else refers to; erase
\* of a cost function whose weight another registered cost function uses keeps
\* the weight's entry and the weight's variables.
C7_WeightCascade ==
  [][(IsErase(call') /\ has_cost_function(objective, call'.name)) =>
       LET cf     == DictGet(objective.cost_functions, call'.name)
           w      == FnWeight(cf)
           others == RegisteredFunctions(objective) \ {cf}
           shared == \E g \in others : FnWeight(g) = w
           elsewhere(v) == \E g \in others : v \in VarsOf(g) \cup VarsOf(FnWeight(g))
           o2     == objective'
       IN
       /\ ~shared =>
            /\ w \notin DOMAIN o2.cost_functions_for_weights
            /\ \A v \in VarsOf(w) :
                 (~elsewhere(v) /\ v \notin VarsOf(cf)) =>
                   /\ ~has_optim_var(o2, VarName(v))
                   /\ ~has_aux_var(o2, VarName(v))
                   /\ ~DictHas(o2.cost_weight_optim_vars, VarName(v))
       /\ (shared /\ w \in DOMAIN objective.cost_functions_for_weights) =>
            /\ w \in DOMAIN o2.cost_functions_for_weights
            /\ \A v \in Range(FnAuxVars(w)) :
                 has_aux_var(objective, VarName(v)) => has_aux_var(o2, VarName(v))
            /\ \A v \in Range(FnOptimVars(w)) :
                 DictHas(objective.cost_weight_optim_vars, VarName(v))
                   => DictHas(o2.cost_weight_optim_vars, VarName(v))]_vars

\* add(cf) passes the name check: the name of cf is free or bound to cf itself
PassesNameCheck(o, cf) ==
  ~has_cost_function(o, FnName(cf)) \/ DictGet(o.cost_functions, FnName(cf)) = cf

\* the operations that are no add and no erase
ReadingOps ==
  {"update", "error", "error_metric", "copy"} \cup {q.op : q \in Queries}

\* C8: the version counter never decreases; it grows by exactly 1 on every add
\* that passes the cost-function name check and on every erase, and update,
\* error, error_metric, copy and the queries leave it unchanged.
C8_VersionCounter ==
  [][LET before == objective.current_version
         after  == objective'.current_version
     IN
     /\ after >= before
     /\ (IsAdd(call') /\ PassesNameCheck(objective, call'.cost_function))
          => after = before + 1
     /\ IsErase(call') => after = before + 1
     /\ call'.op \in ReadingOps => after = before]_vars

\* an erase of a name that is not registered has moved the counter on, after an
\* add had done so
C8_Witness ==
  /\ IsErase(call)
  /\ ~has_cost_function(objective, call.name)
  /\ Len(objective.cost_functions) = 1
  /\ objective.current_version = 2

\* the Variable objects registered as optimization or auxiliary variables
RegisteredVariables(o) ==
  {o.optim_vars[i][2] : i \in 1..Len(o.optim_vars)}
  \cup {o.aux_vars[i][2] : i \in 1..Len(o.aux_vars)}

\* C9: after error(input_tensors, also_update=False) returns, every registered
\* variable, optimization or auxiliary, holds the tensor it held before the
\* call, for input_tensors that name registered variables.
C9_ErrorRestoresTensors ==
  [][\A inp \in Inputs :
       (/\ ErrorCall(inp, FALSE)
        /\ inp.given
        /\ raised' = NoExc
        /\ \A i \in 1..Len(inp.items) :
             has_optim_var(objective, inp.items[i][1])
             \/ has_aux_var(objective, inp.items[i][1]))
       => \A v \in RegisteredVariables(objective) : tensor'[v] = tensor[v]]_vars

\* the leading dimensions of the registered variables' tensors
LeadingDims == {tensor[v].bs : v \in RegisteredVariables(objective)}

OriginalOf(x, is_copy) == IF is_copy THEN x.copy_of ELSE x

\* the adjacency a dict keyed by Variable holds, as pairs of names
NameAdjacency(m, is_copy) ==
  UNION {{<<VarName(OriginalOf(v, is_copy)), FnName(OriginalOf(m[v][i], is_copy))>> :
            i \in 1..Len(m[v])} : v \in DOMAIN m}

\* the graph of o with every object replaced by its name
NameView(o, is_copy) ==
  [ cost_functions         |-> [i \in 1..Len(o.cost_functions) |-> o.cost_functions[i][1]],
    optim_vars             |-> DictKeys(o.optim_vars),
    cost_weight_optim_vars |-> DictKeys(o.cost_weight_optim_vars),
    aux_vars               |-> DictKeys(o.aux_vars),
    optim_adjacency        |-> NameAdjacency(o.functions_for_optim_vars, is_copy),
    aux_adjacency          |-> NameAdjacency(o.functions_for_aux_vars, is_copy),
    weights                |->
      {<<OriginalOf(w, is_copy),
         {FnName(OriginalOf(o.cost_functions_for_weights[w][i], is_copy)) :
            i \in 1..Len(o.cost_functions_for_weights[w])}>> :
         w \in DOMAIN o.cost_functions_for_weights} ]

\* the clone objects the copy binds to the name n
BoundClones(o, n) ==
  {o.optim_vars[i][2] : i \in {j \in 1..Len(o.optim_vars) : o.optim_vars[j][1] = n}}
  \cup {o.aux_vars[i][2] : i \in {j \in 1..Len(o.aux_vars) : o.aux_vars[j][1] = n}}
  \cup {o.cost_weight_optim_vars[i][2] :
          i \in {j \in 1..Len(o.cost_weight_optim_vars) : o.cost_weight_optim_vars[j][1] = n}}
  \cup {v \in DOMAIN o.functions_for_optim_vars : VarName(v.copy_of) = n}
  \cup {v \in DOMAIN o.functions_for_aux_vars : VarName(v.copy_of) = n}

\* C11: copy() of every graph that add and erase reach raises no error and
\* returns a new graph with the same cost function names in the same order,
\* the same variable names, the same adjacency between names and the same
\* sharing of weights, in which every variable name is bound to one clone;
\* the source graph is unchanged.
C11_CopyIsNameEquivalent ==
  [][(call'.op = "copy") =>
       /\ raised' = NoExc
       /\ returned'.kind = "Objective"
       /\ NameView(returned'.value, TRUE) = NameView(objective, FALSE)
       /\ \A n \in VarNames : Cardinality(BoundClones(returned'.value, n)) <= 1
       /\ objective' = objective]_vars

\* ---------------------------------------------------- CostFunctionOrdering
\* add and erase are called while current_version is below MaxOrderingVersion
MaxOrderingVersion == 2

\* CostFunctionOrdering._compute_default_order: the cost functions of the
\* objective in the order of objective.cost_functions, indices from 0
RECURSIVE compute_default_order(_, _, _)
compute_default_order(ord, cost_functions, i) ==
  IF i > Len(cost_functions) THEN ord
  ELSE IF cost_functions[i][1] \in DOMAIN ord.cf_name_to_index
  THEN compute_default_order(ord, cost_functions, i + 1)
  ELSE compute_default_order(
         [ord EXCEPT !.cf_order = Append(@, cost_functions[i][2]),
                     !.cf_name_to_index =
                        MapSet(@, cost_functions[i][1], Len(ord.cf_order))],
         cost_functions, i + 1)

\* CostFunctionOrdering.__init__
CostFunctionOrdering__init__(o, default_order) ==
  IF default_order
  THEN compute_default_order(
         [constructed |-> TRUE, cf_order |-> <<>>, cf_name_to_index |-> << >>],
         o.cost_functions, 1)
  ELSE [constructed |-> TRUE, cf_order |-> <<>>, cf_name_to_index |-> << >>]

\* CostFunctionOrdering.index_of: [exc, value]
index_of(ord, key) ==
  IF key \in DOMAIN ord.cf_name_to_index
  THEN [exc |-> NoExc, value |-> ord.cf_name_to_index[key]]
  ELSE [exc |-> "KeyError", value |-> -1]

\* CostFunctionOrdering.__getitem__ with a non-negative index: [exc, value]
getitem(ord, index) ==
  IF index < Len(ord.cf_order)
  THEN [exc |-> NoExc, value |-> ord.cf_order[index + 1]]
  ELSE [exc |-> "IndexError", value |-> ""]

\* CostFunctionOrdering.append: [ord, exc]
append(ord, o, cf) ==
  IF cf.id \in Range(ord.cf_order)
  THEN [ord |-> ord, exc |-> "ValueError"]
  ELSE IF ~DictHas(o.cost_functions, cf.name)
  THEN [ord |-> ord, exc |-> "ValueError"]
  ELSE [ord |-> [ord EXCEPT !.cf_order = Append(@, cf.id),
                            !.cf_name_to_index = MapSet(@, cf.name, Len(ord.cf_order))],
        exc |-> NoExc]

\* CostFunctionOrdering.remove: [ord, exc]; list.remove raises ValueError for
\* an absent element, del raises KeyError for an absent key
remove(ord, cf) ==
  IF cf.id \notin Range(ord.cf_order)
  THEN [ord |-> ord, exc |-> "ValueError"]
  ELSE Bind([ord EXCEPT !.cf_order = ListDel(@, ListIndex(@, cf.id))], LAMBDA ord1 :
         IF cf.name \notin DOMAIN ord1.cf_name_to_index
         THEN [ord |-> ord1, exc |-> "KeyError"]
         ELSE [ord |-> [ord1 EXCEPT !.cf_name_to_index = MapDel(@, cf.name)],
               exc |-> NoExc])

\* cost functions of the application that the ordering is used with: f2 and
\* f2b have the same name
OrderingCostFunctions == {"f2", "f2b", "f5", "f1b"}

InitOrdering ==
  /\ objective = Objective__init__(FALSE)
  /\ tensor = [v \in Variables |-> InitialTensor]
  /\ call = [op |-> "init"]
  /\ raised = NoExc
  /\ returned = None
  /\ ordering = NoOrdering
  /\ gbp = NoOptimizer

AddO ==
  \E cf \in OrderingCostFunctions :
    /\ objective.current_version < MaxOrderingVersion
    /\ \E r \in {Bind(CostFunction(cf), LAMBDA cost_function :
                        add(objective, cost_function))} :
         /\ objective' = r.o
         /\ raised' = r.exc
    /\ call' = [op |-> "add", cost_function |-> cf]
    /\ returned' = None
    /\ UNCHANGED <<tensor, ordering, gbp>>

EraseO ==
  \E name \in {FnName(f) : f \in OrderingCostFunctions} :
    /\ objective.current_version < MaxOrderingVersion
    /\ \E r \in {erase(objective, name)} :
         /\ objective' = r.o
         /\ raised' = r.exc
    /\ call' = [op |-> "erase", name |-> name]
    /\ returned' = None
    /\ UNCHANGED <<tensor, ordering, gbp>>

\* CostFunctionOrdering(objective, default_order)
NewOrdering ==
  \E default_order \in BOOLEAN :
    /\ call' = [op |-> "CostFunctionOrdering", default_order |-> default_order]
    /\ ordering' = CostFunctionOrdering__init__(objective, default_order)
    /\ raised' = NoExc
    /\ returned' = None
    /\ UNCHANGED <<objective, tensor, gbp>>

OrderingAppend ==
  \E cf \in OrderingCostFunctions :
    /\ ordering.constructed
    /\ call' = [op |-> "append", cost_function |-> cf]
    /\ \E r \in {append(ordering, objective, CostFunction(cf))} :
         /\ ordering' = r.ord
         /\ raised' = r.exc
    /\ returned' = None
    /\ UNCHANGED <<objective, tensor, gbp>>

OrderingRemove ==
  \E cf \in OrderingCostFunctions :
    /\ ordering.constructed
    /\ call' = [op |-> "remove", cost_function |-> cf]
    /\ \E r \in {remove(ordering, CostFunction(cf))} :
         /\ ordering' = r.ord
         /\ raised' = r.exc
    /\ returned' = None
    /\ UNCHANGED <<objective, tensor, gbp>>

NextOrdering == AddO \/ EraseO \/ NewOrdering \/ OrderingAppend \/ OrderingRemove

SpecOrdering == InitOrdering /\ [][NextOrdering]_vars

\* C12: after every append and remove call, ordering[index_of(cf.name)] is cf
\* for every cost function cf the ordering contains, and the indices of the
\* contained cost functions are exactly 0..n-1, none of them twice.
C12_OrderingIndexConsistent ==
  (call.op \in {"append", "remove"}) =>
    /\ \A i \in 1..Len(ordering.cf_order) :
         /\ index_of(ordering, FnName(ordering.cf_order[i])).exc = NoExc
         /\ Bind(index_of(ordering, FnName(ordering.cf_order[i])).value, LAMBDA ix :
              /\ getitem(ordering, ix).exc = NoExc
              /\ getitem(ordering, ix).value = ordering.cf_order[i])
    /\ {ordering.cf_name_to_index[n] : n \in DOMAIN ordering.cf_name_to_index}
         = 0..(Len(ordering.cf_order) - 1)
    /\ Cardinality(DOMAIN ordering.cf_name_to_index) = Len(ordering.cf_order)

\* ------------------------------------------- GaussianBeliefPropagation: run
\* the optimizer is constructed with max_iterations in 0..MaxIterations
MaxIterations == 4

\* NonlinearOptimizerStatus
START == "START"

CONVERGED == "CONVERGED"

MAX_ITERATIONS == "MAX_ITERATIONS"

\* Tensor elements are exact fractions [n |-> numerator, d |-> denominator]
\* in lowest terms with d > 0, so that equal numbers are equal values.
Abs(x) == IF x < 0 THEN 0 - x ELSE x

RECURSIVE GCD(_, _)
GCD(a, b) == IF b = 0 THEN a ELSE Bind(a % b, LAMBDA r : GCD(b, r))

Rat(n, d) ==
  Bind(GCD(Abs(n), Abs(d)), LAMBDA g :
    IF d < 0 THEN [n |-> (0 - n) \div g, d |-> (0 - d) \div g]
    ELSE [n |-> n \div g, d |-> d \div g])

Zero == [n |-> 0, d |-> 1]

One == [n |-> 1, d |-> 1]

RAdd(x, y) == Rat(x.n * y.d + y.n * x.d, x.d * y.d)

RSub(x, y) == Rat(x.n * y.d - y.n * x.d, x.d * y.d)

RMul(x, y) == Rat(x.n * y.n, x.d * y.d)

\* x / y for y # 0
RDiv(x, y) == Rat(x.n * y.d, x.d * y.n)

RLt(x, y) == x.n * y.d < y.n * x.d

RAbs(x) == [n |-> Abs(x.n), d |-> x.d]

RMin(x, y) == IF RLt(y, x) THEN y ELSE x

RECURSIVE SumSeq(_)
SumSeq(s) ==
  IF s = <<>> THEN Zero
  ELSE Bind(SumSeq(Tail(s)), LAMBDA rest : RAdd(Head(s), rest))

\* theseus.constants.EPS and the tolerances of GBPOptimizerParams
EPS == Rat(1, 100)

abs_err_tolerance == Rat(2, 100)

rel_err_tolerance == Rat(1, 10)

\* math.inf in err_history: above every error of the model
Inf == Rat(1000, 1)

\* abs_error / last_err < rel_err_tolerance.  Errors are halved squared
\* norms, so last_err is not negative; a division by zero gives inf or nan,
\* which are not below the tolerance.
rel_error_below_tolerance(abs_error, last_err) ==
  /\ last_err # Zero
  /\ RLt(RDiv(abs_error, last_err), rel_err_tolerance)

\* GaussianBeliefPropagation._check_convergence: one boolean per batch element
check_convergence(err, last_err) ==
  IF Bind(SumSeq([b \in 1..Len(err) |-> RAbs(err[b])]), LAMBDA total :
       RLt(RDiv(total, Rat(Len(err), 1)), EPS))
  THEN [b \in 1..Len(err) |-> TRUE]
  ELSE [b \in 1..Len(err) |->
          \/ RLt(RAbs(RSub(last_err[b], err[b])), abs_err_tolerance)
          \/ rel_error_below_tolerance(RAbs(RSub(last_err[b], err[b])), last_err[b])]

\* GaussianBeliefPropagation._init_info; last_err is the error of the
\* objective and data the values of the variables when optimize is called.
\* A field that is None is the empty sequence.
init_info(track_best_solution, track_err_history, max_iterations, last_err, data) ==
  [ best_solution  |-> IF track_best_solution
                       THEN [b \in 1..Len(last_err) |-> data[b]] ELSE <<>>,
    last_err       |-> last_err,
    best_err       |-> IF track_best_solution THEN last_err ELSE <<>>,
    status         |-> [b \in 1..Len(last_err) |-> START],
    converged_iter |-> [b \in 1..Len(last_err) |-> 0],
    best_iter      |-> [b \in 1..Len(last_err) |-> 0],
    err_history    |-> IF track_err_history
                       THEN [b \in 1..Len(last_err) |->
                               [k \in 1..(max_iterations + 1) |->
                                  IF k = 1 THEN last_err[b] ELSE Inf]]
                       ELSE <<>> ]

\* a tracking that keeps the last solution and the last error
update_best_last(info, current_iter, err, data) ==
  IF info.best_solution = <<>> THEN info
  ELSE [info EXCEPT !.best_iter = [b \in 1..Len(err) |-> current_iter],
                    !.best_solution = data,
                    !.best_err = err]

\* lines 543-553 of _update_info: the best solution and the best error
update_best(info, current_iter, err, data) ==
  IF info.best_solution = <<>> THEN info
  ELSE [info EXCEPT
          !.best_iter = [b \in 1..Len(err) |->
                           IF RLt(err[b], info.best_err[b]) THEN current_iter ELSE @[b]],
          !.best_solution = [b \in 1..Len(err) |->
                           IF RLt(err[b], info.best_err[b]) THEN data[b] ELSE @[b]],
          !.best_err = [b \in 1..Len(err) |-> RMin(info.best_err[b], err[b])]]

\* GaussianBeliefPropagation._update_info
update_info(info, current_iter, err, converged_indices, data) ==
  Bind([info EXCEPT
          !.converged_iter = [b \in 1..Len(err) |->
                                @[b] + (IF converged_indices[b] THEN 0 ELSE 1)],
          !.err_history = IF @ = <<>> THEN @
                          ELSE [b \in 1..Len(err) |->
                                  [@[b] EXCEPT ![current_iter + 2] = err[b]]]],
       LAMBDA info1 :
  Bind(update_best(info1, current_iter, err, data), LAMBDA info2 :
  Bind(check_convergence(err, info2.last_err), LAMBDA converged :
    [info2 EXCEPT
       !.status = [b \in 1..Len(err) |->
                     IF converged[b] THEN CONVERGED ELSE @[b]]])))

\* a loop that may be left at the check of iteration 1
may_break_from_one(it_) == it_ > 0

\* line 777: the iterations whose check may leave the loop
may_break(it_) == it_ > 1

\* lines 764-779 of _optimize_loop: the convergence check of iteration it_
\* with the error err that the objective has after the passes; run.pc becomes
\* "exit" on break
loop_check(run, it_, err, data) ==
  IF ~(it_ > 0) THEN run
  ELSE
    Bind(update_info(run.info, it_, err, run.converged_indices, data), LAMBDA info1 :
    Bind(check_convergence(err, info1.last_err), LAMBDA converged_indices :
    Bind([info1 EXCEPT
            !.status = [b \in 1..Len(err) |->
                          IF converged_indices[b] THEN CONVERGED ELSE @[b]]],
         LAMBDA info2 :
      IF (\A b \in 1..Len(err) : converged_indices[b]) /\ may_break(it_)
      THEN [run EXCEPT !.info = info2,
                       !.converged_indices = converged_indices,
                       !.pc = "exit"]
      ELSE [run EXCEPT !.info = [info2 EXCEPT !.last_err = err],
                       !.converged_indices = converged_indices])))

\* a loop that only a break ends
loop_next_until_break(run) == [run EXCEPT !.it = @ + 1]

\* the for statement of line 740: the next iteration, or the end of the loop
loop_next(run) ==
  IF run.pc = "exit" THEN [run EXCEPT !.it = @ + 1]
  ELSE IF run.it + 1 < run.max_iterations THEN [run EXCEPT !.it = @ + 1]
  ELSE [run EXCEPT !.it = @ + 1, !.pc = "exit"]

\* a return that leaves the statuses as the loop set them
optimize_return_keeps_start(run) == [run EXCEPT !.pc = "returned"]

\* lines 781-784 of _optimize_loop and 825-829 of _optimize_impl
optimize_return(run) ==
  Bind([b \in 1..Len(run.info.status) |->
          IF run.info.status[b] = START THEN MAX_ITERATIONS ELSE run.info.status[b]],
       LAMBDA status :
    [run EXCEPT
       !.pc = "returned",
       !.info = [@ EXCEPT
                   !.status = status,
                   !.converged_iter = [b \in 1..Len(status) |->
                                         IF status[b] = MAX_ITERATIONS
                                         THEN 0 - 1 ELSE @[b]]]])

\* --------------------------------------------- the arguments of optimize
\* values given as damping and as dropout
Probabilities == {Rat(0 - 1, 2), Zero, Rat(1, 2), One, Rat(3, 2)}

\* a schedule tensor: its dtype, its shape and its rows
ScheduleTensor(dtype, rows, cols, value) ==
  [given |-> TRUE, dtype |-> dtype, shape |-> <<rows, cols>>,
   rows |-> [k \in 1..rows |-> [e \in 1..cols |-> value]]]

NoSchedule == [given |-> FALSE, dtype |-> "", shape |-> <<0, 0>>, rows |-> <<>>]

\* lines 698-715 of _optimize_loop: the exception the checks of the arguments
\* raise, or NoExc
check_arguments(damping, dropout, schedule, max_iterations, n_edges) ==
  IF RLt(One, damping) \/ RLt(damping, Zero) THEN "ValueError"
  ELSE IF RLt(One, dropout) \/ RLt(dropout, Zero) THEN "ValueError"
  ELSE IF ~schedule.given THEN NoExc
  ELSE IF schedule.dtype # "bool" THEN "ValueError"
  ELSE IF schedule.shape # <<max_iterations, n_edges>> THEN "ValueError"
  ELSE NoExc

\* ------------------------------------- GaussianBeliefPropagation.__init__
\* VariableOrdering(objective, default_order=True): the optimization variables
\* in the order of objective.optim_vars
VariableOrdering__init__(o) == [i \in 1..Len(o.optim_vars) |-> o.optim_vars[i][2]]

\* edges laid out from the last cost function of the ordering to the first
RECURSIVE edges_of_last_first(_, _)
edges_of_last_first(cf_order, i) ==
  IF i > Len(cf_order) THEN <<>>
  ELSE edges_of_last_first(cf_order, i + 1)
       \o [j \in 1..Len(FnOptimVars(cf_order[i])) |->
             [cf |-> cf_order[i], var |-> FnOptimVars(cf_order[i])[j], pos |-> j]]

\* the edges of the factor graph, cost function by cost function: one per
\* optimization variable of each cost function
RECURSIVE edges_of(_, _)
edges_of(cf_order, i) ==
  IF i > Len(cf_order) THEN <<>>
  ELSE [j \in 1..Len(FnOptimVars(cf_order[i])) |->
          [cf |-> cf_order[i], var |-> FnOptimVars(cf_order[i])[j], pos |-> j]]
       \o edges_of(cf_order, i + 1)

NoInfo ==
  [ best_solution |-> <<>>, last_err |-> <<>>, best_err |-> <<>>, status |-> <<>>,
    converged_iter |-> <<>>, best_iter |-> <<>>, err_history |-> <<>> ]

\* GaussianBeliefPropagation.__init__, and the fields and locals of a run:
\* pc is the position of the run ("idle" before optimize is called, "loop" at
\* the head of the for statement, "exit" behind it, "returned"), it the number
\* of iterations executed
GaussianBeliefPropagation__init__(o, max_iterations) ==
  Bind(CostFunctionOrdering__init__(o, TRUE).cf_order, LAMBDA cf_ordering :
  Bind(VariableOrdering__init__(o), LAMBDA var_ordering :
    [ constructed       |-> TRUE,
      ordering          |-> var_ordering,
      cf_ordering       |-> cf_ordering,
      max_iterations    |-> max_iterations,
      n_edges           |-> Len(edges_of(cf_ordering, 1)),
      var_ix_for_edges  |-> [j \in 1..Len(edges_of(cf_ordering, 1)) |->
                               ListIndex(var_ordering, edges_of(cf_ordering, 1)[j].var) - 1],
      pc                |-> "idle",
      it                |-> 0,
      converged_indices |-> <<>>,
      info              |-> NoInfo,
      schedule          |-> NoSchedule,
      schedule_it       |-> <<>>,
      damping           |-> Zero,
      dropout           |-> Zero,
      damping_arr       |-> <<>>,
      inverted          |-> {},
      vtof_msgs         |-> <<>>,
      ftov_msgs         |-> <<>>,
      beliefs           |-> <<>>,
      factors           |-> <<>> ]))

\* the objective after add() of the given cost functions and update() with
\* tensors of the given batch size
RECURSIVE objective_of(_, _)
objective_of(cost_functions, batch_size) ==
  IF cost_functions = <<>>
  THEN [Objective__init__(FALSE) EXCEPT !.batch_size = batch_size]
  ELSE Bind(objective_of(SubSeq(cost_functions, 1, Len(cost_functions) - 1), batch_size),
            LAMBDA o : add(o, CostFunction(cost_functions[Len(cost_functions)])).o)

\* the values of the ordered variables of batch element b, as
\* _maybe_init_best_solution and _update_info copy them
solution_of(run, tn, batch_size) ==
  [b \in 1..batch_size |-> [i \in 1..Len(run.ordering) |-> tn[run.ordering[i]].val]]

\* ------------------------------- runs followed by their errors, batch of 2
\* objective.batch_size
BatchSize == 2

\* the cost functions of the objective: f1b on y, f2 on x and y
LoopCostFunctions == <<"f1b", "f2">>

\* errors of one batch element, in hundredths, and the error vectors the
\* objective has in these runs
ErrValue(k) == Rat(k, 100)

ErrVectors ==
  { <<ErrValue(0), ErrValue(0)>>, <<ErrValue(0), ErrValue(3)>>,
    <<ErrValue(1), ErrValue(3)>>, <<ErrValue(3), ErrValue(0)>>,
    <<ErrValue(40), ErrValue(3)>>, <<ErrValue(43), ErrValue(3)>> }

\* schedules given in these runs: none, one of the right shape, one of the
\* wrong shape, one that is not boolean
LoopSchedules(run) ==
  { NoSchedule,
    ScheduleTensor("bool", run.max_iterations, run.n_edges, TRUE),
    ScheduleTensor("bool", run.max_iterations, run.n_edges + 1, TRUE),
    ScheduleTensor("float32", run.max_iterations, run.n_edges, TRUE) }

InitLoop ==
  /\ objective = objective_of(LoopCostFunctions, BatchSize)
  /\ tensor = [v \in Variables |-> [InitialTensor EXCEPT !.bs = BatchSize]]
  /\ call = [op |-> "init"]
  /\ raised = NoExc
  /\ returned = None
  /\ ordering = NoOrdering
  /\ gbp = NoOptimizer

\* GaussianBeliefPropagation(objective, max_iterations=...)
NewOptimizerL ==
  \E max_iterations \in 0..MaxIterations :
    /\ gbp.pc \in {"none", "idle", "returned"}
    /\ call' = [op |-> "GaussianBeliefPropagation"]
    /\ gbp' = GaussianBeliefPropagation__init__(objective, max_iterations)
    /\ tensor' = [v \in Variables |-> [InitialTensor EXCEPT !.bs = BatchSize]]
    /\ raised' = NoExc
    /\ returned' = None
    /\ UNCHANGED <<objective, ordering>>

\* optimize(...) up to the head of the loop: _init_info and lines 698-739;
\* last_err is the error of the objective at the call
OptimizeStartL ==
  /\ gbp.pc = "idle"
  /\ \E track_best_solution \in BOOLEAN, track_err_history \in BOOLEAN,
        damping \in Probabilities, dropout \in Probabilities,
        schedule \in LoopSchedules(gbp), last_err \in ErrVectors :
    /\ call' = [op |-> "optimize"]
    /\ \E exc \in {check_arguments(damping, dropout, schedule,
                                    gbp.max_iterations, gbp.n_edges)} :
         /\ raised' = exc
         /\ gbp' = IF exc # NoExc THEN gbp
                   ELSE [gbp EXCEPT
                           !.info = init_info(track_best_solution, track_err_history,
                                              gbp.max_iterations, last_err,
                                              solution_of(gbp, tensor, BatchSize)),
                           !.converged_indices = [b \in 1..BatchSize |-> FALSE],
                           !.pc = IF gbp.max_iterations > 0 THEN "loop" ELSE "exit"]
    /\ returned' = None
    /\ UNCHANGED <<objective, tensor, ordering>>

\* one iteration of the loop: the two passes give the variables new values,
\* named by the number of the iteration, and the objective a new error
IterateL ==
  \E err \in ErrVectors :
    /\ gbp.pc = "loop"
    /\ tensor' = [v \in Variables |->
                    IF v \in Range(gbp.ordering)
                    THEN [tensor[v] EXCEPT !.val = gbp.it + 1] ELSE tensor[v]]
    /\ \E solution \in {solution_of(gbp, tensor', BatchSize)} :
         \E checked \in {loop_check(gbp, gbp.it, err, solution)} :
           gbp' = loop_next(checked)
    /\ UNCHANGED <<objective, call, raised, returned, ordering>>

\* the end of _optimize_loop and of _optimize_impl
OptimizeReturnL ==
  /\ gbp.pc = "exit"
  /\ gbp' = optimize_return(gbp)
  /\ returned' = [kind |-> "NonlinearOptimizerInfo", value |-> gbp'.info]
  /\ UNCHANGED <<objective, tensor, call, raised, ordering>>

NextLoop == NewOptimizerL \/ OptimizeStartL \/ IterateL \/ OptimizeReturnL

SpecLoop == InitLoop /\ [][NextLoop]_vars

\* the batch elements of the run
BatchElements == 1..Len(gbp.info.status)

\* a step of a run that optimize has started
InRun == gbp.pc \in {"loop", "exit"}

\* C13: in a run of optimize the status of every batch element starts as
\* START and changes only from START, to CONVERGED or to MAX_ITERATIONS, so at
\* most once and never away from CONVERGED; when the run has returned no
\* element has the status START.
C13_StatusChangesOnce ==
  [][/\ (gbp.pc = "idle" /\ gbp'.pc \in {"loop", "exit"}) =>
          \A b \in 1..Len(gbp'.info.status) : gbp'.info.status[b] = START
     /\ InRun =>
          \A b \in BatchElements :
            \/ gbp'.info.status[b] = gbp.info.status[b]
            \/ /\ gbp.info.status[b] = START
               /\ gbp'.info.status[b] \in {CONVERGED, MAX_ITERATIONS}
     /\ (InRun /\ gbp'.pc = "returned") =>
          \A b \in BatchElements : gbp'.info.status[b] # START]_vars

\* a run has returned with one element CONVERGED, although it did not meet the
\* criterion at the last check, and the other MAX_ITERATIONS
C13_Witness ==
  /\ gbp.pc = "returned"
  /\ gbp.info.status = <<CONVERGED, MAX_ITERATIONS>>
  /\ ~gbp.converged_indices[1]

\* a step of the loop with a convergence check, at which every batch element
\* has converged
AllConvergedAtCheck ==
  /\ gbp.pc = "loop" /\ gbp'.pc \in {"loop", "exit"}
  /\ gbp.it >= 1
  /\ \A b \in BatchElements : gbp'.converged_indices[b]

\* C14: the run stops at the first check, at an iteration index >= 1, at which
\* all batch elements have converged; when that is the check of iteration 1
\* the run has executed exactly 2 iterations.
C14_StopsAtFirstConvergedCheck ==
  [][AllConvergedAtCheck => gbp'.pc = "exit"]_vars

\* C14, amended: the run stops at the first check at an iteration index >= 2
\* at which all batch elements have converged, so not before 3 iterations are
\* executed; a check of iteration 1 at which all elements have converged does
\* not stop the run unless max_iterations is 2.
C14_StopsAtFirstConvergedCheckFromTwo ==
  [][(gbp.pc = "loop" /\ gbp'.pc \in {"loop", "exit"} /\ gbp.it >= 1) =>
       /\ gbp'.it = gbp.it + 1
       /\ gbp'.pc = "exit" <=>
            \/ gbp.it >= 2 /\ \A b \in BatchElements : gbp'.converged_indices[b]
            \/ gbp.it + 1 = gbp.max_iterations]_vars

\* the loop was left at the check of iteration 2, before max_iterations
C14_Witness ==
  /\ gbp.pc = "exit"
  /\ gbp.it = 3 /\ gbp.max_iterations > 3
  /\ \A b \in BatchElements : gbp.converged_indices[b]

\* the criterion of one batch element on its own errors
ConvergedOnOwnErrors(err_b, prev_err_b) ==
  \/ RLt(RAbs(err_b), EPS)
  \/ RLt(RAbs(RSub(prev_err_b, err_b)), abs_err_tolerance)
  \/ rel_error_below_tolerance(RAbs(RSub(prev_err_b, err_b)), RAbs(prev_err_b))

\* C17: at every convergence check, whatever the error vector of the
\* objective is, a batch element b is marked converged exactly when
\* |err[b]| < EPS or |prevErr[b] - err[b]| < absTol or
\* |prevErr[b] - err[b]| / |prevErr[b]| < relTol, whatever the errors of the
\* other batch elements are.
C17_ConvergedPerElement ==
  (gbp.pc = "loop" /\ gbp.it >= 1) =>
    \A err \in ErrVectors : \A b \in BatchElements :
      check_convergence(err, gbp.info.last_err)[b]
        <=> ConvergedOnOwnErrors(err[b], gbp.info.last_err[b])

RECURSIVE MinOf(_)
MinOf(s) == IF Len(s) = 1 THEN s[1] ELSE RMin(s[1], MinOf(Tail(s)))

\* the values the ordered variables have when entry k of err_history is
\* written: entry 1 at the call of optimize, entry k + 2 at the check of
\* iteration k
SnapshotAt(k) ==
  [i \in 1..Len(gbp.ordering) |-> IF k = 1 THEN InitialTensor.val ELSE k - 1]

\* C19: with best-solution tracking on, after every convergence check
\* best_err[b] is the minimum of the error at the call and the errors of all
\* checks so far, best_solution[b] is the snapshot of the variables taken
\* where that minimum was first observed, and a check overwrites the snapshot
\* only when its error is strictly below the best error before it.
C19_BestSolutionTracksMinimum ==
  [][(gbp'.pc \in {"loop", "exit"} /\ gbp'.info.best_solution # <<>>) =>
       \A b \in 1..Len(gbp'.info.status) :
         /\ (gbp.pc = "loop" /\ gbp'.info.best_solution[b] # gbp.info.best_solution[b])
              => RLt(gbp'.info.best_err[b], gbp.info.best_err[b])
         /\ (gbp.pc = "loop") =>
              \/ gbp'.info.best_err[b] = gbp.info.best_err[b]
              \/ RLt(gbp'.info.best_err[b], gbp.info.best_err[b])
         /\ (gbp'.info.err_history # <<>>) =>
              /\ gbp'.info.best_err[b] = MinOf(gbp'.info.err_history[b])
              /\ \E k \in 1..Len(gbp'.info.err_history[b]) :
                   /\ gbp'.info.err_history[b][k] = gbp'.info.best_err[b]
                   /\ \A j \in 1..(k - 1) :
                        gbp'.info.err_history[b][j] # gbp'.info.best_err[b]
                   /\ gbp'.info.best_solution[b] = SnapshotAt(k)]_vars

\* the first element's error rose at the check of iteration 1 and fell below
\* the error at the call at the check of iteration 2, whose snapshot is kept
C19_Witness ==
  /\ gbp.pc \in {"loop", "exit"}
  /\ gbp.info.best_solution # <<>> /\ gbp.info.err_history # <<>>
  /\ gbp.it >= 3
  /\ RLt(gbp.info.err_history[1][1], gbp.info.err_history[1][3])
  /\ RLt(gbp.info.err_history[1][4], gbp.info.err_history[1][1])
  /\ gbp.info.best_iter[1] = 2

\* ------------------------------------------- messages, factors and passes
\* The variables of the runs of the optimizer are one-dimensional vectors with
\* a batch of 1, a rational [n, d]: var.local(other) is other - var,
\* var.retract(delta) is var + delta and the Jacobian of th.exp_map is 1.  A
\* point with the field cls is a point of a one-dimensional group whose
\* exponential map is not linear: the same chart, with the Jacobian 1 + t^2 at
\* the tangent vector t, which is 1 at t = 0 and invertible everywhere.  A
\* ManifoldGaussian is [mean, precision].
exp_map_jacobian(var, tangent_vector) ==
  IF "cls" \in DOMAIN var THEN RAdd(One, RMul(tangent_vector, tangent_vector))
  ELSE One

local(var, other) == RSub(other, var)

retract(var, delta) ==
  IF "cls" \in DOMAIN var
  THEN Bind(RAdd(var, delta), LAMBDA r : [n |-> r.n, d |-> r.d, cls |-> var.cls])
  ELSE RAdd(var, delta)

\* local_gaussian: <<mean or eta, lam>> in the tangent plane at var
local_gaussian(mess, var, return_mean) ==
  Bind(local(var, mess.mean), LAMBDA mean_tp :
  Bind(exp_map_jacobian(var, mean_tp), LAMBDA jac :
  Bind(RMul(RMul(jac, mess.precision), jac), LAMBDA lam_tp :
    IF return_mean THEN <<mean_tp, lam_tp>>
    ELSE <<RMul(lam_tp, mean_tp), lam_tp>>)))

\* a retract_gaussian that transforms the precision with the Jacobian itself
retract_gaussian_forward_jacobian(mean_tp, precision_tp, var) ==
  Bind(exp_map_jacobian(var, mean_tp), LAMBDA jac :
    [mean      |-> retract(var, mean_tp),
     precision |-> RMul(RMul(jac, precision_tp), jac)])

\* retract_gaussian: the mean and the precision out_gauss is updated with
retract_gaussian(mean_tp, precision_tp, var) ==
  Bind(exp_map_jacobian(var, mean_tp), LAMBDA jac :
  Bind(RDiv(One, jac), LAMBDA inv_jac :
    [mean      |-> retract(var, mean_tp),
     precision |-> RMul(RMul(inv_jac, precision_tp), inv_jac)]))

\* A cost function of these runs has the error sum_j FnJacobians[j] * v_j -
\* FnTarget with the weight 1: f1b is y - 1, a quadratic potential centred at
\* 1, and f2 is y - x - 1.
FnJacobians(f) ==
  CASE f = "f1b" -> <<One>>
    [] f = "f2"  -> <<Rat(0 - 1, 1), One>>

FnTarget(f) == One

\* cf.weighted_jacobians_error(): the error at the current variables
weighted_error(f, tn) ==
  RSub(SumSeq([j \in 1..Len(FnOptimVars(f)) |->
                 RMul(FnJacobians(f)[j], tn[FnOptimVars(f)[j]].val)]),
       FnTarget(f))

\* objective.error_squared_norm() / 2 for a batch of 1
error_squared_norm_half(o, tn) ==
  << RDiv(SumSeq([i \in 1..Len(o.cost_functions) |->
                    RMul(weighted_error(o.cost_functions[i][2], tn),
                         weighted_error(o.cost_functions[i][2], tn))]),
          Rat(2, 1)) >>

\* Factor.linearize(relin_threshold=None)
linearize(factor, tn) ==
  Bind(weighted_error(factor.cf, tn), LAMBDA err :
    [factor EXCEPT
       !.potential_lam = [i \in 1..Len(FnOptimVars(factor.cf)) |->
                            [j \in 1..Len(FnOptimVars(factor.cf)) |->
                               RMul(FnJacobians(factor.cf)[i], FnJacobians(factor.cf)[j])]],
       !.potential_eta = [j \in 1..Len(FnOptimVars(factor.cf)) |->
                            RSub(Zero, RMul(FnJacobians(factor.cf)[j], err))],
       !.lin_point = [j \in 1..Len(FnOptimVars(factor.cf)) |->
                        tn[FnOptimVars(factor.cf)[j]].val]])

\* Factor.__init__
Factor__init__(cf, tn) ==
  linearize([ cf            |-> cf,
              potential_eta |-> [j \in 1..Len(FnOptimVars(cf)) |-> Zero],
              potential_lam |-> [i \in 1..Len(FnOptimVars(cf)) |->
                                   [j \in 1..Len(FnOptimVars(cf)) |-> Zero]],
              lin_point     |-> [j \in 1..Len(FnOptimVars(cf)) |->
                                   tn[FnOptimVars(cf)[j]].val] ], tn)

\* a message computed from the potential of the factor alone, without the
\* precision of the message that comes in from the other variable
new_message_without_incoming(factor, vtof_msgs, ftov_msgs, damping, v, o) ==
  Bind(IF o = 0 THEN One
       ELSE factor.potential_lam[o][o], LAMBDA lnono :
  IF lnono = Zero THEN [mess |-> ftov_msgs[v], exc |-> "LinAlgError"]
  ELSE
  Bind(IF o = 0 THEN factor.potential_lam[v][v]
       ELSE RSub(factor.potential_lam[v][v],
                 RMul(RMul(factor.potential_lam[v][o], RDiv(One, lnono)),
                      factor.potential_lam[o][v])), LAMBDA new_mess_lam :
  Bind(IF o = 0 THEN factor.potential_eta[v]
       ELSE RSub(factor.potential_eta[v],
                 RMul(RMul(factor.potential_lam[v][o], RDiv(One, lnono)),
                      RAdd(factor.potential_eta[o],
                           local_gaussian(vtof_msgs[o], factor.lin_point[o], FALSE)[1]))),
       LAMBDA new_mess_eta :
    IF new_mess_lam = Zero
    THEN [mess |-> [mean |-> Zero, precision |-> Zero], exc |-> NoExc]
    ELSE
      Bind(RAdd(RMul(RSub(One, damping[v]), RDiv(new_mess_eta, new_mess_lam)),
                RMul(damping[v],
                     local_gaussian(ftov_msgs[v], factor.lin_point[v], TRUE)[1])),
           LAMBDA new_mess_mean :
        [mess |-> retract_gaussian(new_mess_mean, new_mess_lam, factor.lin_point[v]),
         exc  |-> NoExc]))))

\* lines 345-430 of Factor.comp_mess for the variable at position v of a
\* factor of one or two variables; o is the position of the other variable.
\* vtof_msgs, ftov_msgs and damping are the slices of the factor.
\* [mess, exc]: np.linalg.inv raises LinAlgError for a singular lnono
new_message(factor, vtof_msgs, ftov_msgs, damping, v, o) ==
  Bind(IF o = 0 THEN One
       ELSE RAdd(factor.potential_lam[o][o], vtof_msgs[o].precision), LAMBDA lnono :
  IF lnono = Zero THEN [mess |-> ftov_msgs[v], exc |-> "LinAlgError"]
  ELSE
  Bind(IF o = 0 THEN factor.potential_lam[v][v]
       ELSE RSub(factor.potential_lam[v][v],
                 RMul(RMul(factor.potential_lam[v][o], RDiv(One, lnono)),
                      factor.potential_lam[o][v])), LAMBDA new_mess_lam :
  Bind(IF o = 0 THEN factor.potential_eta[v]
       ELSE RSub(factor.potential_eta[v],
                 RMul(RMul(factor.potential_lam[v][o], RDiv(One, lnono)),
                      RAdd(factor.potential_eta[o],
                           local_gaussian(vtof_msgs[o], factor.lin_point[o], FALSE)[1]))),
       LAMBDA new_mess_eta :
    IF new_mess_lam = Zero
    THEN [mess |-> [mean |-> Zero, precision |-> Zero], exc |-> NoExc]
    ELSE
      Bind(RAdd(RMul(RSub(One, damping[v]), RDiv(new_mess_eta, new_mess_lam)),
                RMul(damping[v],
                     local_gaussian(ftov_msgs[v], factor.lin_point[v], TRUE)[1])),
           LAMBDA new_mess_mean :
        [mess |-> retract_gaussian(new_mess_mean, new_mess_lam, factor.lin_point[v]),
         exc  |-> NoExc]))))

\* Factor.comp_mess: the new messages of all the variables of the factor, which
\* the messages of ftov_msgs are updated with (lines 433-436)
comp_mess(factor, vtof_msgs, ftov_msgs, damping) ==
  Bind([v \in 1..Len(FnOptimVars(factor.cf)) |->
          new_message(factor, vtof_msgs, ftov_msgs, damping, v,
                      IF Len(FnOptimVars(factor.cf)) = 1 THEN 0 ELSE 3 - v)],
       LAMBDA new_messages :
    IF \E v \in DOMAIN new_messages : new_messages[v].exc # NoExc
    THEN [new_messages |-> ftov_msgs, exc |-> "LinAlgError"]
    ELSE [new_messages |-> [v \in DOMAIN new_messages |-> new_messages[v].mess],
          exc |-> NoExc])

\* the messages and the damping of the edges of the factor of edge j
slice_of(run, seq, j) ==
  SubSeq(seq, j - edges_of(run.cf_ordering, 1)[j].pos + 1,
         j - edges_of(run.cf_ordering, 1)[j].pos
           + Len(FnOptimVars(edges_of(run.cf_ordering, 1)[j].cf)))

\* GaussianBeliefPropagation._pass_fac_to_var_messages: every factor is
\* linearized and computes the messages of all its edges; the schedule is a
\* parameter that the body does not read
pass_fac_to_var_messages(run, tn, schedule, damping) ==
  Bind([i \in 1..Len(run.factors) |-> linearize(run.factors[i], tn)], LAMBDA factors :
  Bind([j \in 1..run.n_edges |->
          Bind(edges_of(run.cf_ordering, 1)[j], LAMBDA e :
            new_message(factors[ListIndex(run.cf_ordering, e.cf)],
                        slice_of(run, run.vtof_msgs, j),
                        slice_of(run, run.ftov_msgs, j),
                        slice_of(run, damping, j), e.pos,
                        IF Len(FnOptimVars(e.cf)) = 1 THEN 0 ELSE 3 - e.pos))],
       LAMBDA new_messages :
    IF \E j \in 1..run.n_edges : new_messages[j].exc # NoExc
    THEN [run |-> [run EXCEPT !.factors = factors], exc |-> "LinAlgError"]
    ELSE [run |-> [run EXCEPT !.factors = factors,
                              !.ftov_msgs = [j \in 1..run.n_edges |-> new_messages[j].mess]],
          exc |-> NoExc]))

\* the edges that bring a message to the variable of edge j, j left out
others_of(run, j) ==
  {k \in 1..run.n_edges : k # j /\ run.var_ix_for_edges[k] = run.var_ix_for_edges[j]}

\* the sum of the precisions (weighted is FALSE) or of the precisions times
\* the tangent means (TRUE) of the messages of the edges in ixs, in the
\* tangent plane at var
sum_of(ftov_msgs, ixs, var, weighted) ==
  SumSeq([k \in 1..Len(ftov_msgs) |->
            IF k \notin ixs THEN Zero
            ELSE IF weighted
            THEN RMul(ftov_msgs[k].precision, local(var, ftov_msgs[k].mean))
            ELSE ftov_msgs[k].precision])

\* a message that carries the value of the variable when the precision of
\* the other messages is zero
vtof_message_at_variable(run, tn, j) ==
  Bind(tn[run.ordering[run.var_ix_for_edges[j] + 1]].val, LAMBDA var :
  Bind(sum_of(run.ftov_msgs, others_of(run, j), var, FALSE), LAMBDA lam_a :
    IF lam_a = Zero THEN retract_gaussian(Zero, lam_a, var)
    ELSE retract_gaussian(
           RDiv(sum_of(run.ftov_msgs, others_of(run, j), var, TRUE), lam_a),
           lam_a, var)))

\* a message made of the messages of all the edges of the variable, the
\* message of edge j included
vtof_message_of_all_edges(run, tn, j) ==
  Bind(tn[run.ordering[run.var_ix_for_edges[j] + 1]].val, LAMBDA var :
  Bind(others_of(run, j) \cup {j}, LAMBDA ixs :
  Bind(sum_of(run.ftov_msgs, ixs, var, FALSE), LAMBDA lam_a :
    IF lam_a = Zero THEN [mean |-> Zero, precision |-> lam_a]
    ELSE retract_gaussian(RDiv(sum_of(run.ftov_msgs, ixs, var, TRUE), lam_a),
                          lam_a, var))))

\* lines 628-644 of _pass_var_to_fac_messages: the message of edge j from its
\* variable, made of the messages of the other edges of the variable
vtof_message(run, tn, j) ==
  Bind(tn[run.ordering[run.var_ix_for_edges[j] + 1]].val, LAMBDA var :
  Bind(sum_of(run.ftov_msgs, others_of(run, j), var, FALSE), LAMBDA lam_a :
    IF lam_a = Zero THEN [mean |-> Zero, precision |-> lam_a]
    ELSE retract_gaussian(
           RDiv(sum_of(run.ftov_msgs, others_of(run, j), var, TRUE), lam_a),
           lam_a, var)))

\* a pass that leaves the variables where they are
belief_mean_kept(run, tn, i) == tn[run.ordering[i]].val

\* lines 646-657 of _pass_var_to_fac_messages: the value of variable i after
\* the update of its belief, whose mean is the variable itself
belief_mean(run, tn, i) ==
  Bind({k \in 1..run.n_edges : run.var_ix_for_edges[k] = i - 1}, LAMBDA ixs :
  Bind(tn[run.ordering[i]].val, LAMBDA var :
    IF sum_of(run.ftov_msgs, ixs, var, FALSE) = Zero THEN var
    ELSE retract(var, RDiv(sum_of(run.ftov_msgs, ixs, var, TRUE),
                           sum_of(run.ftov_msgs, ixs, var, FALSE)))))

\* a belief over a copy of the variable
Marginal_of_copy(var) == [mean |-> "copy", precision |-> Zero]

\* Marginal([var]) of line 732: the mean of the belief is the Variable object
\* itself, so that an update of the belief writes to the variable
Marginal(var) == [mean |-> var, precision |-> Zero]

\* GaussianBeliefPropagation._pass_var_to_fac_messages(update_belief=True):
\* [run, tn], the run with the new messages and precisions of the beliefs and
\* the tensors of the variables; run.inverted names the edges and the
\* variables ("belief") for which torch.inverse was called
pass_var_to_fac_messages(run, tn) ==
  [ run |->
      [run EXCEPT
         !.vtof_msgs = [j \in 1..run.n_edges |-> vtof_message(run, tn, j)],
         !.beliefs = [i \in 1..Len(run.ordering) |->
            Bind(sum_of(run.ftov_msgs,
                        {k \in 1..run.n_edges : run.var_ix_for_edges[k] = i - 1},
                        Zero, FALSE), LAMBDA lam_tau :
              IF lam_tau = Zero THEN run.beliefs[i]
              ELSE [run.beliefs[i] EXCEPT !.precision = lam_tau])],
         !.inverted =
            {<<"edge", j>> : j \in {k \in 1..run.n_edges :
                sum_of(run.ftov_msgs, others_of(run, k), Zero, FALSE) # Zero}}
            \cup
            {<<"belief", i>> : i \in {k \in 1..Len(run.ordering) :
                sum_of(run.ftov_msgs,
                       {e \in 1..run.n_edges : run.var_ix_for_edges[e] = k - 1},
                       Zero, FALSE) # Zero}}],
    tn |-> [v \in DOMAIN tn |->
              IF \E i \in 1..Len(run.beliefs) : run.beliefs[i].mean = v
              THEN [tn[v] EXCEPT !.val =
                      belief_mean(run, tn, CHOOSE i \in 1..Len(run.beliefs) :
                                             run.beliefs[i].mean = v)]
              ELSE tn[v]] ]

\* a start that makes the messages, the beliefs and the factors before it
\* checks the arguments
optimize_start_checks_late(run, o, tn, args, track) ==
  Bind([run EXCEPT
          !.vtof_msgs = [j \in 1..run.n_edges |-> [mean |-> Zero, precision |-> Zero]],
          !.ftov_msgs = [j \in 1..run.n_edges |-> [mean |-> Zero, precision |-> Zero]],
          !.beliefs = [i \in 1..Len(run.ordering) |-> Marginal(run.ordering[i])],
          !.factors = [i \in 1..Len(run.cf_ordering) |->
                         Factor__init__(run.cf_ordering[i], tn)]], LAMBDA run1 :
  Bind(check_arguments(args.damping, args.dropout, args.schedule,
                       run.max_iterations, run.n_edges), LAMBDA exc :
    IF exc # NoExc THEN [run |-> run1, exc |-> exc]
    ELSE [run |-> [run1 EXCEPT
                     !.info = init_info(track, track, run.max_iterations,
                                        error_squared_norm_half(o, tn),
                                        solution_of(run, tn, 1)),
                     !.damping = args.damping,
                     !.dropout = args.dropout,
                     !.schedule = args.schedule,
                     !.converged_indices = <<FALSE>>,
                     !.pc = IF run.max_iterations > 0 THEN "loop" ELSE "exit"],
          exc |-> NoExc]))

\* _optimize_impl up to the head of the loop of _optimize_loop: _init_info,
\* the checks of lines 698-715, then the messages with a zero mean and a zero
\* precision (717-727), the beliefs (729-732) and the factors (734-737).
\* [run, exc]: a ValueError leaves the optimizer as it was
optimize_start(run, o, tn, args, track) ==
  Bind(check_arguments(args.damping, args.dropout, args.schedule,
                       run.max_iterations, run.n_edges), LAMBDA exc :
    IF exc # NoExc THEN [run |-> run, exc |-> exc]
    ELSE [run |-> [run EXCEPT
                     !.info = init_info(track, track, run.max_iterations,
                                        error_squared_norm_half(o, tn),
                                        solution_of(run, tn, 1)),
                     !.damping = args.damping,
                     !.dropout = args.dropout,
                     !.schedule = args.schedule,
                     !.converged_indices = <<FALSE>>,
                     !.vtof_msgs = [j \in 1..run.n_edges |->
                                      [mean |-> Zero, precision |-> Zero]],
                     !.ftov_msgs = [j \in 1..run.n_edges |->
                                      [mean |-> Zero, precision |-> Zero]],
                     !.beliefs = [i \in 1..Len(run.ordering) |-> Marginal(run.ordering[i])],
                     !.factors = [i \in 1..Len(run.cf_ordering) |->
                                    Factor__init__(run.cf_ordering[i], tn)],
                     !.pc = IF run.max_iterations > 0 THEN "loop" ELSE "exit"],
          exc |-> NoExc])

\* ------------------------------------ runs with messages, batch of 1
\* the cost functions of the objective: one variable with one factor, or two
\* variables with two factors
Problems == { <<"f1b">>, <<"f1b", "f2">> }

\* the values the variables have when the optimizer is made
InitialValues == {Zero, One, Rat(2, 1)}

\* the arguments given to optimize in these runs: damping without dropout and
\* a random schedule, or dropout with a schedule that is False everywhere, of
\* the wrong shape or not boolean
GBPArguments(run) ==
  {[damping |-> d, dropout |-> Zero, schedule |-> NoSchedule] : d \in Probabilities}
  \cup
  {[damping |-> Zero, dropout |-> p, schedule |-> s] :
     p \in Probabilities,
     s \in {ScheduleTensor("bool", run.max_iterations, run.n_edges, FALSE),
            ScheduleTensor("bool", run.max_iterations + 1, run.n_edges, FALSE),
            ScheduleTensor("float32", run.max_iterations, run.n_edges, FALSE)}}

\* relin_threshold of optimize(): the default of line 692 and a threshold
\* above every distance a variable of these runs moves in one iteration
RelinThresholds == {Rat(1, 10), Rat(10, 1)}

\* lines 746-751: the sets of edges that rand(n_edges) < dropout can give
dropout_ixs_of(run) ==
  IF run.dropout = Zero THEN {{}}
  ELSE IF run.dropout = One THEN {1..run.n_edges}
  ELSE SUBSET (1..run.n_edges)

\* schedule[it_]: the row of the schedule that was given, or a row of
\* random_schedule, which is True at one edge
schedule_rows_of(run) ==
  IF run.schedule.given THEN {run.schedule.rows[run.it + 1]}
  ELSE {[j \in 1..run.n_edges |-> j = ix] : ix \in 1..run.n_edges}

InitGBP ==
  /\ \E cost_functions \in Problems : objective = objective_of(cost_functions, 1)
  /\ tensor = [v \in Variables |-> [InitialTensor EXCEPT !.val = Zero]]
  /\ call = [op |-> "init"]
  /\ raised = NoExc
  /\ returned = None
  /\ ordering = NoOrdering
  /\ gbp = NoOptimizer

\* GaussianBeliefPropagation(objective, max_iterations=...), with the
\* variables at a value of InitialValues
NewOptimizerG ==
  \E max_iterations \in 0..MaxIterations, value \in InitialValues :
    /\ gbp.pc \in {"none", "idle", "returned"}
    /\ call' = [op |-> "GaussianBeliefPropagation"]
    /\ gbp' = GaussianBeliefPropagation__init__(objective, max_iterations)
    /\ tensor' = [v \in Variables |-> [InitialTensor EXCEPT !.val = value]]
    /\ raised' = NoExc
    /\ returned' = None
    /\ UNCHANGED <<objective, ordering>>

\* optimize(...) up to the head of the loop: _init_info, then lines 698-739
\* of _optimize_loop, which check the arguments and then make the messages,
\* the beliefs and the factors
OptimizeStartG ==
  /\ gbp.pc = "idle"
  /\ \E args \in GBPArguments(gbp), track \in BOOLEAN,
        relin_threshold \in RelinThresholds :
    /\ call' = [op |-> "optimize", damping |-> args.damping,
                dropout |-> args.dropout, schedule |-> args.schedule,
                relin_threshold |-> relin_threshold]
    /\ \E run \in {optimize_start(gbp, objective, tensor, args, track)} :
         /\ raised' = run.exc
         /\ gbp' = run.run
    /\ returned' = None
    /\ UNCHANGED <<objective, tensor, ordering>>

\* lines 741-756 of the loop: the damping of the iteration and the pass from
\* the factors to the variables
PassFacToVarG ==
  /\ gbp.pc = "loop"
  /\ \E dropout_ixs \in dropout_ixs_of(gbp), schedule_it \in schedule_rows_of(gbp) :
       \E r \in {pass_fac_to_var_messages(
                   [gbp EXCEPT !.schedule_it = schedule_it,
                               !.damping_arr = [j \in 1..gbp.n_edges |->
                                  IF j \in dropout_ixs THEN One ELSE gbp.damping]],
                   tensor, schedule_it,
                   [j \in 1..gbp.n_edges |->
                      IF j \in dropout_ixs THEN One ELSE gbp.damping])} :
         /\ raised' = r.exc
         /\ gbp' = [r.run EXCEPT !.pc = IF r.exc = NoExc THEN "vtof" ELSE "raised"]
  /\ UNCHANGED <<objective, tensor, call, returned, ordering>>

\* lines 758-779 of the loop: the pass from the variables to the factors,
\* which updates the beliefs, and the convergence check of the iteration
PassVarToFacG ==
  /\ gbp.pc = "vtof"
  /\ \E r \in {pass_var_to_fac_messages(gbp, tensor)} :
       /\ tensor' = r.tn
       /\ gbp' = loop_next(loop_check([r.run EXCEPT !.pc = "loop"], gbp.it,
                                      error_squared_norm_half(objective, r.tn),
                                      solution_of(gbp, r.tn, 1)))
  /\ UNCHANGED <<objective, call, raised, returned, ordering>>

\* the end of _optimize_loop and of _optimize_impl
OptimizeReturnG ==
  /\ gbp.pc = "exit"
  /\ gbp' = optimize_return(gbp)
  /\ returned' = [kind |-> "NonlinearOptimizerInfo", value |-> gbp'.info]
  /\ UNCHANGED <<objective, tensor, call, raised, ordering>>

NextGBP ==
  NewOptimizerG \/ OptimizeStartG \/ PassFacToVarG \/ PassVarToFacG \/ OptimizeReturnG

SpecGBP == InitGBP /\ [][NextGBP]_vars

\* the arguments of the call c of optimize are not valid for the optimizer run
InvalidArguments(c, run) ==
  \/ RLt(c.damping, Zero) \/ RLt(One, c.damping)
  \/ RLt(c.dropout, Zero) \/ RLt(One, c.dropout)
  \/ /\ c.schedule.given
     /\ \/ c.schedule.dtype # "bool"
        \/ c.schedule.shape # <<run.max_iterations, run.n_edges>>

\* C16: optimize called with a damping or a dropout outside [0, 1], or with a
\* schedule that is not boolean or not of the shape (max_iterations, number of
\* edges), raises ValueError; the optimizer then has no message, no belief and
\* no factor, and no variable has changed.
C16_InvalidArgumentsRaiseFirst ==
  [][(gbp.pc = "idle" /\ call'.op = "optimize" /\ InvalidArguments(call', gbp)) =>
       /\ raised' = "ValueError"
       /\ gbp'.vtof_msgs = <<>> /\ gbp'.ftov_msgs = <<>>
       /\ gbp'.beliefs = <<>> /\ gbp'.factors = <<>>
       /\ gbp'.pc = "idle"
       /\ tensor' = tensor]_vars

\* optimize has raised for a boolean schedule with one row too many
C16_Witness ==
  /\ call.op = "optimize" /\ gbp.pc = "idle" /\ raised = "ValueError"
  /\ gbp.n_edges = 3
  /\ call.damping = Zero /\ call.dropout = Rat(1, 2)
  /\ call.schedule.given /\ call.schedule.dtype = "bool"
  /\ call.schedule.shape = <<gbp.max_iterations + 1, gbp.n_edges>>
  /\ gbp.factors = <<>> /\ gbp.vtof_msgs = <<>>

\* the edges that bring a message to variable i of the ordering
IncomingEdges(i) == {k \in 1..gbp.n_edges : gbp.var_ix_for_edges[k] = i - 1}

\* the sum of the precisions of the messages to the variable of edge j that
\* come over the other edges
LeaveOneOutPrecision(j) ==
  SumSeq([k \in 1..gbp.n_edges |->
            IF k # j /\ gbp.var_ix_for_edges[k] = gbp.var_ix_for_edges[j]
            THEN gbp.ftov_msgs[k].precision ELSE Zero])

\* C18: in a pass from the variables to the factors, a variable whose
\* incoming messages all have the precision zero keeps its value and the
\* precision of its belief, and a message to a factor whose leave-one-out
\* precision is zero gets the mean zero and the precision zero; torch.inverse
\* is called for neither.
C18_ZeroPrecisionIsNotInverted ==
  [][(gbp.pc = "vtof" /\ gbp'.pc # "vtof") =>
       /\ \A i \in 1..Len(gbp.ordering) :
            (\A k \in IncomingEdges(i) : gbp.ftov_msgs[k].precision = Zero) =>
              /\ tensor'[gbp.ordering[i]] = tensor[gbp.ordering[i]]
              /\ gbp'.beliefs[i] = gbp.beliefs[i]
              /\ <<"belief", i>> \notin gbp'.inverted
       /\ \A j \in 1..gbp.n_edges :
            (LeaveOneOutPrecision(j) = Zero) =>
              /\ gbp'.vtof_msgs[j] = [mean |-> Zero, precision |-> Zero]
              /\ <<"edge", j>> \notin gbp'.inverted]_vars

\* after the first iteration of a run with two factors: one variable has only
\* a message of precision zero and is where it was, at a value other than 0,
\* another one has a belief; one message to a factor is zero, and
\* torch.inverse was called for another
C18_Witness ==
  /\ gbp.pc = "loop" /\ gbp.it = 1 /\ gbp.n_edges = 3
  /\ \E i \in 1..Len(gbp.ordering) :
       /\ \A k \in IncomingEdges(i) : gbp.ftov_msgs[k].precision = Zero
       /\ gbp.beliefs[i].precision = Zero
       /\ tensor[gbp.ordering[i]].val = Rat(2, 1)
       /\ <<"belief", i>> \notin gbp.inverted
  /\ \E i \in 1..Len(gbp.ordering) : <<"belief", i>> \in gbp.inverted
  /\ \E j \in 1..gbp.n_edges :
       /\ LeaveOneOutPrecision(j) = Zero
       /\ gbp.vtof_msgs[j] = [mean |-> Zero, precision |-> Zero]
       /\ <<"edge", j>> \notin gbp.inverted
  /\ \E j \in 1..gbp.n_edges : <<"edge", j>> \in gbp.inverted

\* C15: in iteration k of a run the pass from the factors to the variables
\* leaves the message of every edge e with schedule[k][e] = False as it was.
C15_UnscheduledMessageUnchanged ==
  [][(gbp.pc = "loop" /\ gbp'.pc = "vtof") =>
       \A e \in 1..gbp.n_edges :
         ~gbp'.schedule_it[e] => gbp'.ftov_msgs[e] = gbp.ftov_msgs[e]]_vars

\* optimize has returned from a run on the objective with one variable and
\* one factor
SingleFactorRunReturned ==
  gbp.pc = "returned" /\ Len(gbp.cf_ordering) = 1 /\ Len(gbp.ordering) = 1

\* the entries of the error history of batch element b that the run has
\* written: the others still hold the infinity they are initialised with
RecordedErrors(b) == SelectSeq(gbp.info.err_history[b], LAMBDA e : e # Inf)

\* the run ended CONVERGED with the variable within abs_err_tolerance of the
\* centre of the potential and with a non-increasing error history
ConvergedToCentre ==
  /\ gbp.info.status = <<CONVERGED>>
  /\ RLt(RAbs(RSub(tensor[gbp.ordering[1]].val, FnTarget(gbp.cf_ordering[1]))),
         abs_err_tolerance)
  /\ gbp.info.err_history # <<>> =>
       \A k \in 1..(Len(RecordedErrors(1)) - 1) :
         ~RLt(RecordedErrors(1)[k], RecordedErrors(1)[k + 1])

\* C20: for an objective with one variable and one factor with a quadratic
\* potential centred at x*, optimize ends with the status CONVERGED, the
\* variable within abs_err_tolerance of x* and a non-increasing error history.
C20_SingleFactorConverges == SingleFactorRunReturned => ConvergedToCentre

\* C20 as the code has it: the same for a run without damping and without
\* dropout that has at least two iterations.
C20_SingleFactorConvergesUndamped ==
  (SingleFactorRunReturned /\ gbp.damping = Zero /\ gbp.dropout = Zero
     /\ gbp.max_iterations >= 2) => ConvergedToCentre

\* a run of three iterations from the value 2 has returned CONVERGED with the
\* variable at the centre 1 and the errors 1/2, 0, 0 recorded
C20_Witness ==
  /\ SingleFactorRunReturned /\ gbp.damping = Zero /\ gbp.dropout = Zero
  /\ gbp.max_iterations = 3
  /\ gbp.info.status = <<CONVERGED>>
  /\ tensor[gbp.ordering[1]].val = One
  /\ gbp.info.err_history # <<>>
  /\ RecordedErrors(1) = <<Rat(1, 2), Zero, Zero>>

\* the name of cf is registered in o for another cost function object
NameTakenByOther(o, cf) ==
  has_cost_function(o, FnName(cf)) /\ DictGet(o.cost_functions, FnName(cf)) # cf

\* C23: add(cf) while another cost function object is registered under the
\* name of cf raises ValueError and leaves the whole objective as it was: cost
\* functions, variables, adjacency lists, weight lists and version counter.
C23_NameCollisionLeavesGraph ==
  [][(IsAdd(call') /\ NameTakenByOther(objective, call'.cost_function))
       => (raised' = "ValueError" /\ objective' = objective)]_vars

\* add(f1b) was rejected in an objective that holds f1 under the same name,
\* with its variables, and that has counted one add
C23_Witness ==
  /\ call = [op |-> "add", cost_function |-> "f1b"]
  /\ raised = "ValueError"
  /\ NameTakenByOther(objective, "f1b")
  /\ objective.current_version = 1
  /\ has_optim_var(objective, "x") /\ ~has_optim_var(objective, "y")

\* C24: erase(name) with a name under which no cost function is registered
\* raises no error and leaves cost functions, variables, adjacency lists and
\* weight lists as they were, while the version counter is incremented.
C24_EraseAbsentOnlyCounts ==
  [][(IsErase(call') /\ ~has_cost_function(objective, call'.name))
       => /\ raised' = NoExc
          /\ GraphOf(objective') = GraphOf(objective)
          /\ objective'.current_version = objective.current_version + 1]_vars

\* erase("none") has returned in an objective that holds f2 with its
\* variables and that has counted the add and the erase
C24_Witness ==
  /\ call = [op |-> "erase", name |-> "none"]
  /\ raised = NoExc
  /\ IsRegistered(objective, "f2")
  /\ has_optim_var(objective, "x") /\ has_optim_var(objective, "y")
  /\ objective.current_version = 2

\* the columns that the cost functions of o contribute, in the order of their
\* registration: those of the cost function registered last come last
RECURSIVE ColumnsInOrder(_)
ColumnsInOrder(cfs) ==
  IF cfs = <<>> THEN <<>>
  ELSE ColumnsInOrder(SubSeq(cfs, 1, Len(cfs) - 1))
       \o [k \in 1..FnDim(cfs[Len(cfs)][2]) |-> <<cfs[Len(cfs)][2], k>>]

\* C25: error() returns the weighted errors of the registered cost functions
\* concatenated in the order of their registration, of the width dim(), after
\* any sequence of add and erase calls; it does not fail for the objective
\* itself, only for the tensors it is given.
C25_ErrorConcatenatesInOrder ==
  (call.op = "error") =>
    /\ raised \in {NoExc, "ValueError"}
    /\ raised = NoExc =>
         /\ returned.value = ColumnsInOrder(objective.cost_functions)
         /\ Len(returned.value) = dim(objective)

\* the objective o binds the name n to no optimization variable, auxiliary
\* variable or optimization variable of a cost weight
UnknownName(o, n) ==
  ~DictHas(o.optim_vars, n) /\ ~DictHas(o.aux_vars, n)
    /\ ~DictHas(o.cost_weight_optim_vars, n)

\* the variable object that update writes for the name n
UpdatedObject(o, n) ==
  IF DictHas(o.optim_vars, n) THEN {DictGet(o.optim_vars, n)}
  ELSE IF DictHas(o.aux_vars, n) THEN {DictGet(o.aux_vars, n)}
  ELSE IF DictHas(o.cost_weight_optim_vars, n) THEN {DictGet(o.cost_weight_optim_vars, n)}
  ELSE {}

\* the call c of update is given tensors, all of them under unknown names
OnlyUnknownNames(o, c) ==
  /\ c.op = "update" /\ c.input_tensors # <<>>
  /\ \A i \in 1..Len(c.input_tensors) : UnknownName(o, c.input_tensors[i][1])

\* what C26 says of a step of update: a call with only unknown names changes
\* no tensor and raises only what update() of nothing raises, and every call
\* leaves the variables it does not name as they were
UnknownNamesSkipped(o, tn, c, tn1, exc1) ==
  /\ OnlyUnknownNames(o, c) =>
       /\ tn1 = tn
       /\ exc1 = update([o |-> o, tn |-> tn, exc |-> NoExc], <<>>).exc
  /\ c.op = "update" =>
       \A v \in Variables :
         (\A i \in 1..Len(c.input_tensors) :
            v \notin UpdatedObject(o, c.input_tensors[i][1])) => tn1[v] = tn[v]

\* C26: update() given a tensor under a name that is bound to no variable
\* raises no error for that name and changes no variable; variables that the
\* input does not name keep their tensors.
C26_UnknownNameSkipped ==
  [][UnknownNamesSkipped(objective, tensor, call', tensor', raised')]_vars

\* C26 as the code has it: the same for tensors with a batch dimension and at
\* least one data dimension; a tensor of fewer dimensions raises ValueError
\* whatever its name.
C26_UnknownNameSkippedWithBatchDimension ==
  [][(call'.op = "update" /\ \A i \in 1..Len(call'.input_tensors) :
                               call'.input_tensors[i][2].ndim >= 2)
       => UnknownNamesSkipped(objective, tensor, call', tensor', raised')]_vars

\* update({"u": t}) has returned for a tensor t of batch size 3 in an
\* objective that holds f2, whose variable y an earlier update has written
C26_Witness ==
  /\ call = [op |-> "update",
             input_tensors |-> << <<"u", [ndim |-> 2, bs |-> 3, val |-> 1]>> >>]
  /\ raised = NoExc
  /\ IsRegistered(objective, "f2")
  /\ UnknownName(objective, "u")
  /\ tensor["vy"].val = 1 /\ tensor["vx"].val = 0

\* the cost functions, the variables and the adjacency of o, without the
\* order of the entries
ContentsOf(o) ==
  [ cost_functions |-> Range(o.cost_functions),
    optim_vars     |-> Range(o.optim_vars),
    aux_vars       |-> Range(o.aux_vars),
    cost_weight_optim_vars   |-> Range(o.cost_weight_optim_vars),
    functions_for_optim_vars |-> [v \in DOMAIN o.functions_for_optim_vars |->
                                    Range(o.functions_for_optim_vars[v])],
    functions_for_aux_vars   |-> [v \in DOMAIN o.functions_for_aux_vars |->
                                    Range(o.functions_for_aux_vars[v])] ]

\* no name of cf, of its variables and of the variables of its weight is
\* registered in o
NamesFree(o, cf) ==
  /\ ~has_cost_function(o, FnName(cf))
  /\ \A v \in VarsOf(cf) \cup VarsOf(FnWeight(cf)) : UnknownName(o, VarName(v))

\* C27: when erase(name) has removed a registered cost function, a following
\* add of the same cost function succeeds and restores the cost functions,
\* the variables and the adjacency the objective had before the erase, and a
\* following add of any cost function that an empty objective accepts and
\* whose names are all free after the erase succeeds as well.
C27_ErasedNamesAreFree ==
  \A cf \in CostFunctions :
    IsRegistered(objective, cf) =>
      \A e \in {erase(objective, FnName(cf))} :
        (e.exc = NoExc) =>
          /\ \A a \in {add(e.o, CostFunction(cf))} :
               a.exc = NoExc /\ ContentsOf(a.o) = ContentsOf(objective)
          /\ \A cf2 \in CostFunctions :
               ( /\ NamesFree(e.o, cf2)
                 /\ add(Objective__init__(objective.allow_mixed_optim_aux_vars),
                        CostFunction(cf2)).exc = NoExc )
               => add(e.o, CostFunction(cf2)).exc = NoExc

\* the variable at position j of factor i of the run is further from the
\* linearization point of the factor than the threshold of the call
BeyondThreshold(i, j) ==
  RLt(call.relin_threshold,
      RAbs(local(gbp.factors[i].lin_point[j],
                 tensor[FnOptimVars(gbp.factors[i].cf)[j]].val)))

\* C29: in the pass from the factors to the variables a factor none of whose
\* variables is further from the stored linearization point than the
\* relinearization threshold keeps its potential and its linearization point.
C29_RelinearizedOnlyBeyondThreshold ==
  [][(gbp.pc = "loop" /\ gbp'.pc \in {"vtof", "raised"}) =>
       \A i \in 1..Len(gbp.factors) :
         (\A j \in 1..Len(gbp.factors[i].lin_point) : ~BeyondThreshold(i, j)) =>
           /\ gbp'.factors[i].potential_eta = gbp.factors[i].potential_eta
           /\ gbp'.factors[i].potential_lam = gbp.factors[i].potential_lam
           /\ gbp'.factors[i].lin_point = gbp.factors[i].lin_point]_vars

\* C28: an edge whose damping is 1 in an iteration, as the damping of every
\* edge that dropout selects is, has after the pass from the factors to the
\* variables of that iteration the message it had before the pass, mean and
\* precision.
C28_FullDampingKeepsMessage ==
  [][(gbp.pc = "loop" /\ gbp'.pc = "vtof") =>
       \A j \in 1..gbp.n_edges :
         (gbp'.damping_arr[j] = One) => gbp'.ftov_msgs[j] = gbp.ftov_msgs[j]]_vars

\* every batch element of the run has the status CONVERGED
AllStatusConverged ==
  \A b \in 1..Len(gbp.info.status) : gbp.info.status[b] = CONVERGED

\* C30: a run whose batch elements all have the status CONVERGED after the
\* check of an iteration that may leave the loop (line 777: it_ > 1) does
\* not go on to a further iteration, also when the elements got the status at
\* different iterations.
C30_NoIterationOnceAllConverged ==
  ~(InRun /\ gbp.pc = "loop" /\ gbp.it >= 3 /\ AllStatusConverged)

\* ------------------------------- the Gaussian transforms and comp_mess alone
\* points, tangent means and precisions of the calls of these runs
ManifoldPoints ==
  { Zero, One,
    [n |-> 0, d |-> 1, cls |-> "LieGroup"], [n |-> 2, d |-> 1, cls |-> "LieGroup"] }

TangentMeans == {Rat(0 - 1, 1), Zero, Rat(1, 2), Rat(2, 1)}

Precisions == {Zero, Rat(1, 2), One, Rat(2, 1)}

\* the messages that come in to a factor and the messages it sent before
Messages ==
  { [mean |-> Zero, precision |-> Zero], [mean |-> One, precision |-> One],
    [mean |-> Rat(2, 1), precision |-> Rat(1, 2)] }

Dampings == {Zero, Rat(1, 2), One}

InitGaussian ==
  /\ objective = objective_of(<<"f2">>, 1)
  /\ tensor = [v \in Variables |-> [InitialTensor EXCEPT !.val = Zero]]
  /\ call = [op |-> "init"]
  /\ raised = NoExc
  /\ returned = None
  /\ ordering = NoOrdering
  /\ gbp = NoOptimizer

\* retract_gaussian(mean_tp, precision_tp, var, out_gauss); the value returned
\* is out_gauss after the call
RetractGaussianCall ==
  \E mean_tp \in TangentMeans, precision_tp \in Precisions, var \in ManifoldPoints :
    /\ call' = [op |-> "retract_gaussian", mean_tp |-> mean_tp,
                precision_tp |-> precision_tp, var |-> var]
    /\ returned' = [kind  |-> "ManifoldGaussian",
                    value |-> retract_gaussian(mean_tp, precision_tp, var)]
    /\ raised' = NoExc
    /\ UNCHANGED <<objective, tensor, ordering, gbp>>

\* local_gaussian(mess, var, return_mean) of the Gaussian of the last call
LocalGaussianCall ==
  /\ returned.kind = "ManifoldGaussian"
  /\ \E var \in ManifoldPoints, return_mean \in BOOLEAN :
       /\ call' = [op |-> "local_gaussian", mess |-> returned.value,
                   var |-> var, return_mean |-> return_mean]
       /\ returned' = [kind  |-> "tuple",
                       value |-> local_gaussian(returned.value, var, return_mean)]
  /\ raised' = NoExc
  /\ UNCHANGED <<objective, tensor, ordering, gbp>>

\* Factor(cf, name) for the cost function f2 with its variables at values of
\* InitialValues
FactorCall ==
  \E x \in InitialValues, y \in InitialValues :
    /\ tensor' = [tensor EXCEPT !["vx"].val = x, !["vy"].val = y]
    /\ call' = [op |-> "Factor", cf |-> "f2"]
    /\ returned' = [kind |-> "Factor", value |-> Factor__init__("f2", tensor')]
    /\ raised' = NoExc
    /\ UNCHANGED <<objective, ordering, gbp>>

\* factor.comp_mess(vtof_msgs, ftov_msgs, damping) of the factor of the last
\* call
CompMessCall ==
  /\ returned.kind = "Factor"
  /\ \E in1 \in Messages, in2 \in Messages, out1 \in Messages, out2 \in Messages,
        d1 \in Dampings, d2 \in Dampings :
       /\ call' = [op |-> "comp_mess", factor |-> returned.value,
                   vtof_msgs |-> <<in1, in2>>, ftov_msgs |-> <<out1, out2>>,
                   damping |-> <<d1, d2>>]
       /\ \E r \in {comp_mess(returned.value, <<in1, in2>>, <<out1, out2>>,
                              <<d1, d2>>)} :
            /\ raised' = r.exc
            /\ returned' = [kind |-> "list", value |-> r.new_messages]
  /\ UNCHANGED <<objective, tensor, ordering, gbp>>

NextGaussian == RetractGaussianCall \/ LocalGaussianCall \/ FactorCall \/ CompMessCall

SpecGaussian == InitGaussian /\ [][NextGaussian]_vars

\* C21: local_gaussian of the Gaussian that retract_gaussian(mean_tp,
\* precision_tp, var, out) made, taken at the same point var, returns mean_tp
\* and precision_tp again.
C21_RetractThenLocalIsIdentity ==
  [][(/\ call.op = "retract_gaussian" /\ call'.op = "local_gaussian"
      /\ call'.var = call.var /\ call'.return_mean)
     => returned'.value = <<call.mean_tp, call.precision_tp>>]_vars

\* the round trip of the tangent Gaussian (2, 1) at the point 2 of the curved
\* group, where the Jacobian is 5 and the Gaussian on the group has the
\* precision 1/25
C21_Witness ==
  /\ call.op = "local_gaussian" /\ call.return_mean
  /\ call.var = [n |-> 2, d |-> 1, cls |-> "LieGroup"]
  /\ call.mess = [mean |-> [n |-> 4, d |-> 1, cls |-> "LieGroup"],
                  precision |-> Rat(1, 25)]
  /\ returned.value = <<Rat(2, 1), One>>

\* the information vector and the precision of the other variable of the
\* factor of the call c, seen from position v: the block of the potential
\* with the message that comes in added, in the tangent plane of the factor
OtherBlock(c, v) ==
  << RAdd(c.factor.potential_eta[3 - v],
          local_gaussian(c.vtof_msgs[3 - v], c.factor.lin_point[3 - v], FALSE)[1]),
     RAdd(c.factor.potential_lam[3 - v][3 - v],
          local_gaussian(c.vtof_msgs[3 - v], c.factor.lin_point[3 - v], FALSE)[2]) >>

\* <<e_A - L_AB (L_BB)^-1 e_B, L_AA - L_AB (L_BB)^-1 L_BA>> for A at position v
SchurComplement(c, v) ==
  << RSub(c.factor.potential_eta[v],
          RDiv(RMul(c.factor.potential_lam[v][3 - v], OtherBlock(c, v)[1]),
               OtherBlock(c, v)[2])),
     RSub(c.factor.potential_lam[v][v],
          RDiv(RMul(c.factor.potential_lam[v][3 - v], c.factor.potential_lam[3 - v][v]),
               OtherBlock(c, v)[2])) >>

\* the determinant of the joint precision
JointDeterminant(c, v) ==
  RSub(RMul(c.factor.potential_lam[v][v], OtherBlock(c, v)[2]),
       RMul(c.factor.potential_lam[v][3 - v], c.factor.potential_lam[3 - v][v]))

\* the marginal of A from the inverse of the joint precision: the covariance
\* of A is L_BB / det and the mean of A is (L_BB e_A - L_AB e_B) / det; the
\* marginal in information form is <<mean / covariance, 1 / covariance>>
DenseMarginal(c, v) ==
  << RDiv(RDiv(RSub(RMul(OtherBlock(c, v)[2], c.factor.potential_eta[v]),
                    RMul(c.factor.potential_lam[v][3 - v], OtherBlock(c, v)[1])),
               JointDeterminant(c, v)),
          RDiv(OtherBlock(c, v)[2], JointDeterminant(c, v))),
     RDiv(One, RDiv(OtherBlock(c, v)[2], JointDeterminant(c, v))) >>

\* the message comp_mess returned for position v as <<information, precision>>
\* in the tangent plane at the linearization point
SentMessage(v) ==
  local_gaussian(returned.value[v], call.factor.lin_point[v], FALSE)

IsSchurMessage(v) ==
  /\ SentMessage(v) = SchurComplement(call, v)
  /\ (JointDeterminant(call, v) # Zero) => SentMessage(v) = DenseMarginal(call, v)

\* C22 as stated: every message comp_mess sends from a two-variable factor is
\* the Schur complement of the joint with the other variable's incoming
\* message added, information and precision, and so the marginal of the dense
\* marginalisation of that joint.
C22_MessageIsSchurComplement ==
  (call.op = "comp_mess" /\ raised = NoExc) =>
    \A v \in 1..2 : IsSchurMessage(v)

\* C22: the message comp_mess sends to a variable whose edge has damping 0 is
\* that Schur complement, information and precision, and so the marginal of
\* the dense marginalisation of the joint.
C22_UndampedMessageIsSchurComplement ==
  (call.op = "comp_mess" /\ raised = NoExc) =>
    \A v \in 1..2 : (call.damping[v] = Zero) => IsSchurMessage(v)

\* the factor f2 linearized at (0, 0) with the message (2, 1/2) coming in from
\* y sends x the message with the mean 1 and the precision 1/3
C22_Witness ==
  /\ call.op = "comp_mess" /\ raised = NoExc
  /\ call.factor.lin_point = <<Zero, Zero>>
  /\ call.damping[1] = Zero
  /\ call.vtof_msgs[2] = [mean |-> Rat(2, 1), precision |-> Rat(1, 2)]
  /\ returned.value[1] = [mean |-> One, precision |-> Rat(1, 3)]
  /\ JointDeterminant(call, 1) # Zero

\* C31: in every state that add and erase calls reach, also after an add
\* that raised, erase(name) of a name that is a key of cost_functions raises
\* nothing and leaves cost_functions without that name.
C31_EraseOfPresentNameSucceeds ==
  \A i \in 1..Len(objective.cost_functions) :
    \A e \in {erase(objective, objective.cost_functions[i][1])} :
      /\ e.exc = NoExc
      /\ ~has_cost_function(e.o, objective.cost_functions[i][1])

\* C32: when add(cf) raises ValueError or RuntimeError and the name of cf was
\* no key of cost_functions before the call, it is no key afterwards and
\* cost_functions has as many entries as before.
C32_RejectedAddNotRegistered ==
  [][(/\ IsAdd(call') /\ raised' \in {"ValueError", "RuntimeError"}
      /\ ~has_cost_function(objective, FnName(call'.cost_function)))
     => /\ ~has_cost_function(objective', FnName(call'.cost_function))
        /\ Len(objective'.cost_functions) = Len(objective.cost_functions)]_vars

\* the message the factor of edge j computes for edge j in the pass that ends
\* in run1, from the messages vtof_msgs and the messages ftov_msgs it sent
\* before
FactorMessageFrom(run, run1, vtof_msgs, ftov_msgs, j) ==
  new_message(run1.factors[ListIndex(run.cf_ordering,
                                     edges_of(run.cf_ordering, 1)[j].cf)],
              slice_of(run, vtof_msgs, j), slice_of(run, ftov_msgs, j),
              slice_of(run, run1.damping_arr, j),
              edges_of(run.cf_ordering, 1)[j].pos,
              IF Len(FnOptimVars(edges_of(run.cf_ordering, 1)[j].cf)) = 1 THEN 0
              ELSE 3 - edges_of(run.cf_ordering, 1)[j].pos).mess

\* the message a factor computes for edge j is the same whatever message the
\* variable sent on edge j, and the message a variable computes for edge j is
\* the same whatever message the factor sent on edge j
OppositeMessageIsNotRead ==
  /\ (gbp.pc = "loop" /\ gbp'.pc = "vtof") =>
       \A j \in 1..gbp.n_edges : \A m \in Messages :
         FactorMessageFrom(gbp, gbp', [gbp.vtof_msgs EXCEPT ![j] = m],
                           gbp.ftov_msgs, j) = gbp'.ftov_msgs[j]
  /\ (gbp.pc = "vtof" /\ gbp'.pc \in {"loop", "exit"}) =>
       \A j \in 1..gbp.n_edges : \A m \in Messages :
         vtof_message([gbp EXCEPT !.ftov_msgs[j] = m], tensor, j)
           = gbp'.vtof_msgs[j]

\* the message a factor computes for edge j is the same whatever message the
\* factor sent on edge j before
PreviousMessageIsNotRead ==
  (gbp.pc = "loop" /\ gbp'.pc = "vtof") =>
    \A j \in 1..gbp.n_edges : \A m \in Messages :
      FactorMessageFrom(gbp, gbp', gbp.vtof_msgs,
                        [gbp.ftov_msgs EXCEPT ![j] = m], j) = gbp'.ftov_msgs[j]

\* C33 as stated: the message computed for an edge, by the factor or by the
\* variable, depends on the messages of the other edges only: it is the same
\* whatever the messages of that edge are, in either direction.
C33_OnlyOtherEdgesAreRead ==
  [][OppositeMessageIsNotRead /\ PreviousMessageIsNotRead]_vars

\* C33: the message a factor computes for an edge in the pass from the
\* factors to the variables is the same whatever message the variable sent on
\* that edge, and the message a variable computes for an edge in the pass from
\* the variables to the factors is the same whatever message the factor sent
\* on that edge; with damping 0 on the edge the factor's message is also the
\* same whatever message the factor sent on the edge before.
C33_OwnEdgeMessageIsNotRead ==
  [][/\ OppositeMessageIsNotRead
     /\ (gbp.pc = "loop" /\ gbp'.pc = "vtof") =>
          \A j \in 1..gbp.n_edges : \A m \in Messages :
            (gbp'.damping_arr[j] = Zero) =>
              FactorMessageFrom(gbp, gbp', gbp.vtof_msgs,
                                [gbp.ftov_msgs EXCEPT ![j] = m], j)
                = gbp'.ftov_msgs[j]]_vars

\* after two iterations of the graph of f1b and f2: f1b has sent y a message
\* on edge 1 and the message of y on edge 1 is the zero message of the other
\* edge of y, the message of y to f2 on edge 3 is made of the message of f1b,
\* and f2 has sent x a message made of the message of y
C33_Witness ==
  /\ gbp.pc = "loop" /\ gbp.it >= 2 /\ gbp.n_edges = 3
  /\ gbp.ftov_msgs[1].precision # Zero
  /\ gbp.vtof_msgs[1].precision = Zero
  /\ gbp.vtof_msgs[3].precision # Zero
  /\ gbp.ftov_msgs[2].precision # Zero

\* C34: converged_iter[b] becomes the index of the iteration at whose check
\* element b first meets the criterion, when its status becomes CONVERGED,
\* and keeps that value through the later checks and the return; when
\* optimize returns it is -1 for every element with the status
\* MAX_ITERATIONS.
C34_ConvergedIterIsFirstConvergedCheck ==
  [][\A b \in 1..Len(gbp'.info.status) :
       /\ (gbp.pc \in {"loop", "vtof"} /\ gbp'.pc \in {"loop", "exit"}) =>
            /\ (gbp.info.status[b] = START /\ gbp'.info.status[b] = CONVERGED)
                 => gbp'.info.converged_iter[b] = gbp.it
            /\ (gbp.info.status[b] = CONVERGED)
                 => gbp'.info.converged_iter[b] = gbp.info.converged_iter[b]
       /\ (gbp.pc = "exit" /\ gbp'.pc = "returned") =>
            /\ (gbp'.info.status[b] = MAX_ITERATIONS)
                 => gbp'.info.converged_iter[b] = 0 - 1
            /\ (gbp'.info.status[b] = CONVERGED)
                 => gbp'.info.converged_iter[b] = gbp.info.converged_iter[b]]_vars

\* C35: with the error history tracked, the call of optimize leaves
\* err_history[b] with the error at the call in column 0 and +infinity in the
\* other columns, and every executed iteration k writes the error of the
\* objective after its passes to column k + 1 and leaves the other columns as
\* they are.  (Column c is position c + 1 of the sequence.)
C35_ErrorHistoryOfExecutedIterations ==
  [][\A b \in 1..Len(gbp'.info.err_history) :
       /\ (gbp.pc = "idle" /\ gbp'.pc \in {"loop", "exit"}) =>
            gbp'.info.err_history[b] =
              [k \in 1..(gbp.max_iterations + 1) |->
                 IF k = 1 THEN error_squared_norm_half(objective, tensor)[b] ELSE Inf]
       /\ (gbp.pc = "vtof" /\ gbp'.pc \in {"loop", "exit"}) =>
            gbp'.info.err_history[b] =
              [gbp.info.err_history[b] EXCEPT
                 ![gbp.it + 2] = error_squared_norm_half(objective, tensor')[b]]]_vars

\* C36: the belief of the ordered variable i has that variable as its mean;
\* after every pass from the variables to the factors the variable holds the
\* mean the pass computed for its belief, the check of the iteration records
\* the error of the objective at these values, and the return of optimize
\* leaves the variables as the last pass left them.
C36_VariablesHoldBeliefMeans ==
  [][/\ (gbp.pc = "vtof" /\ gbp'.pc \in {"loop", "exit"}) =>
          /\ \A i \in 1..Len(gbp.ordering) :
               /\ gbp'.beliefs[i].mean = gbp.ordering[i]
               /\ tensor'[gbp.ordering[i]].val = belief_mean(gbp, tensor, i)
          /\ (gbp.it > 0 /\ gbp'.info.err_history # <<>>) =>
               gbp'.info.err_history[1][gbp.it + 2]
                 = error_squared_norm_half(objective, tensor')[1]
     /\ (gbp.pc = "exit" /\ gbp'.pc = "returned") => tensor' = tensor]_vars

\* a run of the graph of f1b and f2 has returned with beliefs of non-zero
\* precision, y at 1 and x at 0, values the variables did not have at the call
C36_Witness ==
  /\ gbp.pc = "returned" /\ Len(gbp.ordering) = 2
  /\ gbp.beliefs[1].precision # Zero /\ gbp.beliefs[2].precision # Zero
  /\ tensor["vy"].val = One /\ tensor["vx"].val = Zero

\* the runs of the loop under the scheduling of a sequential program: a call
\* of optimize that has started goes on, iteration by iteration, until it
\* returns
SpecLoopFair ==
  SpecLoop /\ WF_vars(IterateL) /\ WF_vars(OptimizeReturnL)

\* C37: a run of optimize never executes more than max_iterations iterations,
\* and every run that has entered the loop returns, whatever the schedule, the
\* damping and the dropout and whether or not an element converges.
C37_RunTerminatesWithinBudget ==
  /\ [](gbp.pc \in {"loop", "exit", "returned"} => gbp.it <= gbp.max_iterations)
  /\ (gbp.pc \in {"loop", "exit"}) ~> (gbp.pc = "returned")

\* a run that used the whole budget of iterations with no element converged
C37_Witness ==
  /\ gbp.pc = "returned"
  /\ gbp.max_iterations = MaxIterations /\ gbp.it = MaxIterations
  /\ gbp.info.status = <<MAX_ITERATIONS, MAX_ITERATIONS>>

\* the number of edges of the cost functions before the i-th of the ordering
RECURSIVE EdgesBefore(_, _)
EdgesBefore(cf_order, i) ==
  IF i = 1 THEN 0
  ELSE EdgesBefore(cf_order, i - 1) + Len(FnOptimVars(cf_order[i - 1]))

\* the pairs of a cost function of the ordering and one of its optimization
\* variables
AttachedPairs(run) ==
  UNION {{<<run.cf_ordering[i], FnOptimVars(run.cf_ordering[i])[p]>> :
            p \in 1..Len(FnOptimVars(run.cf_ordering[i]))} :
         i \in 1..Len(run.cf_ordering)}

ZeroMessage == [mean |-> Zero, precision |-> Zero]

\* the messages, beliefs and factors of the run are those of the start of a
\* run: the message of the p-th variable of the i-th cost function is at
\* place EdgesBefore + p
StartLayout(run) ==
  /\ Len(run.vtof_msgs) = Cardinality(AttachedPairs(run))
  /\ Len(run.ftov_msgs) = Cardinality(AttachedPairs(run))
  /\ Len(run.var_ix_for_edges) = Cardinality(AttachedPairs(run))
  /\ \A i \in 1..Len(run.cf_ordering) :
       \A p \in 1..Len(FnOptimVars(run.cf_ordering[i])) :
         /\ run.vtof_msgs[EdgesBefore(run.cf_ordering, i) + p] = ZeroMessage
         /\ run.ftov_msgs[EdgesBefore(run.cf_ordering, i) + p] = ZeroMessage
         /\ run.ordering[run.var_ix_for_edges[EdgesBefore(run.cf_ordering, i) + p] + 1]
              = FnOptimVars(run.cf_ordering[i])[p]
  /\ Len(run.beliefs) = Len(run.ordering)
  /\ \A i \in 1..Len(run.ordering) : run.beliefs[i].mean = run.ordering[i]
  /\ Len(run.factors) = Len(run.cf_ordering)
  /\ \A i \in 1..Len(run.cf_ordering) : run.factors[i].cf = run.cf_ordering[i]

\* C38: when optimize has accepted its arguments there is one message in each
\* direction for every pair of a cost function and one of its optimization
\* variables, each with a zero mean and a zero precision, laid out cost
\* function by cost function in the order of the ordering, message j being of
\* the variable with the index var_ix_for_edges[j]; there is one belief for
\* each ordered variable and one factor for each ordered cost function.
C38_RunStartsWithZeroMessagesPerEdge ==
  [][(gbp.pc = "idle" /\ gbp'.pc \in {"loop", "exit"}) => StartLayout(gbp')]_vars

\* a run of the graph of f1b and f2 at the head of its first iteration, with
\* three edges, two beliefs and two factors
C38_Witness ==
  /\ gbp.pc = "loop" /\ gbp.it = 0
  /\ gbp.cf_ordering = <<"f1b", "f2">>
  /\ Len(gbp.vtof_msgs) = 3 /\ Len(gbp.ftov_msgs) = 3
  /\ \A j \in 1..3 : gbp.vtof_msgs[j] = ZeroMessage /\ gbp.ftov_msgs[j] = ZeroMessage
  /\ gbp.var_ix_for_edges = <<0, 1, 0>>
  /\ Len(gbp.beliefs) = 2 /\ Len(gbp.factors) = 2

\* ------------------------------------------------ the passes, step by step
\* a step of the pass from the factors after which every variable sends its
\* messages at once, so that the next factor reads them
fac_step_then_variables(run, tn, damping, i) ==
  Bind(linearize(run.factors[i], tn), LAMBDA factor :
  Bind(EdgesBefore(run.cf_ordering, i), LAMBDA start :
  Bind(Len(FnOptimVars(factor.cf)), LAMBDA n_vars :
  Bind(comp_mess(factor,
                 SubSeq(run.vtof_msgs, start + 1, start + n_vars),
                 SubSeq(run.ftov_msgs, start + 1, start + n_vars),
                 SubSeq(damping, start + 1, start + n_vars)), LAMBDA r :
  Bind([run EXCEPT
          !.factors[i] = factor,
          !.ftov_msgs = [j \in 1..run.n_edges |->
                           IF start < j /\ j <= start + n_vars
                           THEN r.new_messages[j - start] ELSE @[j]]], LAMBDA run1 :
    [run |-> [run1 EXCEPT
                !.vtof_msgs = [j \in 1..run.n_edges |-> vtof_message(run1, tn, j)]],
     exc |-> r.exc])))))

\* lines 664-676 of _pass_fac_to_var_messages: the body of the loop for the
\* i-th factor, which linearizes it and has it compute the messages of its
\* own slice of the edges.  [run, exc]
fac_step(run, tn, damping, i) ==
  Bind(linearize(run.factors[i], tn), LAMBDA factor :
  Bind(EdgesBefore(run.cf_ordering, i), LAMBDA start :
  Bind(Len(FnOptimVars(factor.cf)), LAMBDA n_vars :
  Bind(comp_mess(factor,
                 SubSeq(run.vtof_msgs, start + 1, start + n_vars),
                 SubSeq(run.ftov_msgs, start + 1, start + n_vars),
                 SubSeq(damping, start + 1, start + n_vars)), LAMBDA r :
    [run |-> [run EXCEPT
                !.factors[i] = factor,
                !.ftov_msgs = [j \in 1..run.n_edges |->
                                 IF start < j /\ j <= start + n_vars
                                 THEN r.new_messages[j - start] ELSE @[j]]],
     exc |-> r.exc]))))

\* the pass from the factors with the factors taken in the given order; an
\* exception ends the pass
RECURSIVE pass_fac_to_var_in_order(_, _, _, _)
pass_fac_to_var_in_order(run, tn, damping, order) ==
  IF order = <<>> THEN [run |-> run, exc |-> NoExc]
  ELSE Bind(fac_step(run, tn, damping, Head(order)), LAMBDA r :
         IF r.exc # NoExc THEN r
         ELSE pass_fac_to_var_in_order(r.run, tn, damping, Tail(order)))

\* lines 614-657 of _pass_var_to_fac_messages: the body of the loop for the
\* i-th variable, which computes the messages of the edges of the variable
\* and then updates its belief, and with it the variable.  [run, tn]
var_step(run, tn, i) ==
  Bind({k \in 1..run.n_edges : run.var_ix_for_edges[k] = i - 1}, LAMBDA ixs :
  Bind(sum_of(run.ftov_msgs, ixs, Zero, FALSE), LAMBDA lam_tau :
    [run |-> [run EXCEPT
                !.vtof_msgs = [j \in 1..run.n_edges |->
                                 IF j \in ixs THEN vtof_message(run, tn, j) ELSE @[j]],
                !.beliefs[i] = IF lam_tau = Zero THEN @
                               ELSE [@ EXCEPT !.precision = lam_tau]],
     tn  |-> IF run.beliefs[i].mean \in DOMAIN tn
             THEN [tn EXCEPT ![run.beliefs[i].mean] =
                     [@ EXCEPT !.val = belief_mean(run, tn, i)]]
             ELSE tn]))

\* the pass from the variables with the variables taken in the given order
RECURSIVE pass_var_to_fac_in_order(_, _, _)
pass_var_to_fac_in_order(run, tn, order) ==
  IF order = <<>> THEN [run |-> run, tn |-> tn]
  ELSE Bind(var_step(run, tn, Head(order)), LAMBDA r :
         pass_var_to_fac_in_order(r.run, r.tn, Tail(order)))

\* the orders in which n items can be taken
Orders(n) ==
  {order \in [1..n -> 1..n] : \A a, b \in 1..n : a # b => order[a] # order[b]}

\* whatever the order of the factors, a pass from the factors that ends gives
\* the messages that the pass of the run gives, and a pass that raises raises
\* in every order
FactorOrderIsIrrelevant ==
  \A dropout_ixs \in dropout_ixs_of(gbp), schedule_it \in schedule_rows_of(gbp) :
    LET damping == [j \in 1..gbp.n_edges |->
                      IF j \in dropout_ixs THEN One ELSE gbp.damping]
        pass == pass_fac_to_var_messages(gbp, tensor, schedule_it, damping)
    IN  \A order \in Orders(Len(gbp.factors)) :
          LET in_order == pass_fac_to_var_in_order(gbp, tensor, damping, order)
          IN  /\ in_order.exc = pass.exc
              /\ pass.exc = NoExc => in_order.run.ftov_msgs = pass.run.ftov_msgs

\* whatever the order of the variables, the pass from the variables gives the
\* messages, the beliefs and the values of the variables that the pass of the
\* run gives
VariableOrderIsIrrelevant ==
  LET pass == pass_var_to_fac_messages(gbp, tensor)
  IN  \A order \in Orders(Len(gbp.ordering)) :
        LET in_order == pass_var_to_fac_in_order(gbp, tensor, order)
        IN  /\ in_order.run.vtof_msgs = pass.run.vtof_msgs
            /\ in_order.run.beliefs = pass.run.beliefs
            /\ in_order.tn = pass.tn

\* C39: the messages of a pass from the factors do not depend on the order in
\* which the factors are taken, and the messages and beliefs of a pass from
\* the variables do not depend on the order in which the variables are taken.
C39_PassesAreOrderIndependent ==
  /\ gbp.pc = "loop" => FactorOrderIsIrrelevant
  /\ gbp.pc = "vtof" => VariableOrderIsIrrelevant

\* between the two passes of a later iteration of a graph of two factors and
\* two variables: the factors have read messages of a precision that is not
\* zero, and the pass from the variables is about to move both variables
C39_Witness ==
  /\ gbp.pc = "vtof" /\ gbp.it >= 1
  /\ Len(gbp.factors) = 2 /\ Len(gbp.ordering) = 2
  /\ \E j \in 1..gbp.n_edges : gbp.vtof_msgs[j].precision # Zero
  /\ \A i \in 1..2 : belief_mean(gbp, tensor, i) # tensor[gbp.ordering[i]].val

\* ------------------------------------------- CostFunctionOrdering.complete
\* Objective.size_variables: the number of optimization variables
size_variables(o) == Len(o.optim_vars)

\* CostFunctionOrdering.complete, of an ordering made for the objective o
complete(ord, o) == Len(ord.cf_order) = size_variables(o)

\* C40: complete is true exactly when the ordering contains every cost
\* function that is registered in its objective.
C40_CompleteIffEveryCostFunctionOrdered ==
  ordering.constructed =>
    (complete(ordering, objective)
       <=> \A i \in 1..Len(objective.cost_functions) :
             objective.cost_functions[i][2] \in Range(ordering.cf_order))

====
